---------------------------- MODULE Spec2Model ----------------------------
(***************************************************************************)
(* A model of the execution runtime core of anexec:                        *)
(*   - Activity::Impl   (src/src/android/activity.cpp)  component lifecycle *)
(*   - API::Impl        (src/src/android/api.cpp)       capability gateway  *)
(*   - Runtime::Impl    (src/src/core/runtime.cpp)      boot/class registry *)
(*   - Executor::Impl   (src/src/core/executor.cpp)     package loader      *)
(*   - Renderer::Impl   (src/src/graphics/renderer.cpp) draw command queue  *)
(* The objects share no state, so each has a specification of its own      *)
(* (SpecActivity, SpecGateway, SpecRate, SpecRuntime, SpecLoader) over the   *)
(* one variable tuple; a specification leaves the other objects' variables  *)
(* untouched.                                                               *)
(*                                                                         *)
(* Conventions.  Wall-clock timestamps that are stored but never read       *)
(* (LifecycleState::timestamp, create_time, ApkInfo::load_time,             *)
(* SavedState::timestamp, Runtime start_time) are left out.  Variables      *)
(* whose name starts with g_ are observers: they record what an operation   *)
(* returned, wrote or emitted, and never influence the program.             *)
(***************************************************************************)
EXTENDS Integers, Sequences, FiniteSets, TLC

VARIABLES
    \* ---- Activity::Impl
    act_state,          \* state.value
    is_finishing,
    has_window_focus,
    lifecycle_log,
    system_services,    \* the key set of the map (every value is nullptr)
    saved_state,
    out_state,          \* the caller's SavedState object passed to save/restore
    act_fault,          \* the environment: 0, or k when the k-th allocation from now
                        \* (a log entry or a service-table node) throws std::bad_alloc
    g_act_thrown,       \* what() of the exception the last call threw ("" if none)
    g_act_trace,        \* state.value before the last call, then each value written to it
    g_act_op,           \* the last Activity operation called
    \* ---- Runtime::Impl
    rt_config,
    rt_state,
    loaded_classes,     \* std::vector: duplicates are kept
    native_methods,     \* the key set of the map (every value is nullptr)
    rt_callback,        \* whether event_callback holds a callable
    rt_activities,      \* the Activity objects the runtime has constructed: the
                        \* lifecycle state of each
    g_rt_log,           \* the messages the last call handed to event_callback
    g_rt_result,        \* what the last call returned
    g_rt_op,            \* the last Runtime operation called
    \* ---- API::Impl
    api_initialized,    \* state.initialized
    api_identity,       \* package_name, version_name, version_code, min/target_sdk_level
    native_functions,   \* state.native_functions: name -> pointer token
    handlers,           \* name -> handler
    handlers_mutex,     \* "unlocked" or "locked"
    api_calls_count,
    last_rate_reset,
    clock,              \* std::chrono::system_clock::now(), in ticks
    g_responses,        \* the responses the last handleRequest gave to request.callback
    g_invoked,          \* the handlers the last handleRequest invoked
    g_api_thrown,       \* the message of the exception the last call threw ("" if none)
    g_api_op,           \* the last API operation called
    g_request,          \* the request of the last handleRequest
    g_win_start,        \* start of the current fixed window, kept apart from the code
    g_win_calls,        \* rate-checked calls made in that window, the last one included
    g_limited,          \* whether some call was already answered "Rate limit exceeded"
    g_registered,       \* per name, the handler the caller's last registerHandler gave
                        \* and whether the caller had registered another one before
    thr_pc,             \* per calling thread, where it stands inside handleRequest
    thr_req,            \* per calling thread, the method it asked for and what its
                        \* completion callback does
    rate_limit_mutex,   \* the thread that holds rate_limit_mutex, "" when it is free
    g_admitted,         \* calls that passed the test of checkRateLimit since the
                        \* window was last restarted
    \* ---- Executor::Impl
    exec_alive,         \* FALSE once ~Impl has run
    exec_state,         \* state
    apk_info,
    last_error,
    is_running,
    dex_data,           \* nullptr, MAP_FAILED, or the address (id) of a mapped region
    dex_size,
    loaded_libs,
    exec_callback,      \* whether event_callback holds a callable
    exec_pc,            \* where the thread inside execute() stands ("idle": not inside)
    pause_pc,           \* where a thread inside pause() stands: "idle", or "write"
                        \* once it has found the state Running
    resume_pc,          \* where a thread inside resume() stands: "idle", or "write"
                        \* once it has found the state Paused
    g_mapped,           \* the operating system's view: the regions mapped and not unmapped
    g_next_region,      \* the id the next successful mmap returns
    g_munmaps,          \* the munmap calls made so far, as <<address, length>>
    g_dlclosed,         \* the handles dlclose was called on
    g_exec_trace,       \* the values the last operation wrote to state, in order
    g_exec_events,      \* the messages the last operation handed to event_callback
    g_exec_result,      \* what the last operation returned
    g_exec_op,          \* the last Executor operation
    g_path,             \* the path given to the last loadApk
    g_owner_last,       \* the last loadApk or execute call and what it returned
                        \* ("" while it runs)
    \* ---- Renderer::Impl
    rnd_initialized,    \* state.initialized
    surface_created,    \* state.surface_created
    surface_width,      \* state.surface_width
    surface_height,     \* state.surface_height
    scale_factor,       \* state.scale_factor, as <<numerator, denominator>>
    state_mutex,        \* state.state_mutex: "unlocked", or "render" while renderFrame holds it
    render_running,     \* render_thread.running
    render_mutex,       \* render_thread.mutex: "unlocked", or "render" while the
                        \* render thread holds it between its test and its wait
    cv_waiting,         \* whether the render thread is blocked in render_thread.cv
    cv_notified,        \* whether the blocked render thread has been woken
    rnd_config,         \* config.design_width
    command_queue,      \* the commands submitted and not yet taken
    queue_mutex,        \* "unlocked", or "caller" while submitCommand holds it
    current_commands,   \* renderFrame's local vector
    render_pc,          \* where the render thread stands in renderLoop
    caller_pc,          \* where the thread that owns the Renderer stands ("idle":
                        \* between calls)
    caller_cmd,         \* the argument of the submitCommand under way
    g_submitted,        \* every command pushed so far, with whether the surface was
                        \* created and the GL context initialized at that moment
    g_executed,         \* the commands the render thread has drawn, in order
    g_rnd_thrown        \* what the last Renderer call threw ("" if nothing)

act_vars == <<act_state, is_finishing, has_window_focus, lifecycle_log,
              system_services, saved_state, out_state, act_fault, g_act_thrown,
              g_act_trace, g_act_op>>

rt_vars == <<rt_config, rt_state, loaded_classes, native_methods, rt_callback,
             rt_activities, g_rt_log, g_rt_result, g_rt_op>>

api_vars == <<api_initialized, api_identity, native_functions, handlers,
              handlers_mutex, api_calls_count, last_rate_reset, clock, g_responses,
              g_invoked, g_api_thrown, g_api_op, g_request, g_win_start, g_win_calls,
              g_limited, g_registered, thr_pc, thr_req, rate_limit_mutex,
              g_admitted>>

exec_vars == <<exec_alive, exec_state, apk_info, last_error, is_running, dex_data,
               dex_size, loaded_libs, exec_callback, exec_pc, g_mapped, g_next_region,
               g_munmaps, g_dlclosed, g_exec_trace, g_exec_events, g_exec_result,
               g_exec_op, g_path, pause_pc, resume_pc, g_owner_last>>

rnd_vars == <<rnd_initialized, surface_created, surface_width, surface_height,
              scale_factor, state_mutex, render_running, render_mutex, cv_waiting,
              cv_notified, rnd_config, command_queue, queue_mutex, current_commands,
              render_pc, caller_pc, caller_cmd, g_submitted, g_executed, g_rnd_thrown>>

vars == <<act_vars, rt_vars, api_vars, exec_vars, rnd_vars>>

\* What an operation of one object leaves alone: the other objects.
ActFrame == UNCHANGED <<rt_vars, api_vars, exec_vars, rnd_vars>>

RtFrame == UNCHANGED <<act_vars, api_vars, exec_vars, rnd_vars>>

ApiFrame == UNCHANGED <<act_vars, rt_vars, exec_vars, rnd_vars>>

ExecFrame == UNCHANGED <<act_vars, rt_vars, api_vars, rnd_vars>>

Last(s) == s[Len(s)]

-----------------------------------------------------------------------------
(* Activity::Impl                                                           *)

\* Bounds of the exploration: lifecycle calls are explored while the log holds
\* fewer than MaxLog entries, the other calls (save, restore, focus, startActivity)
\* while it holds fewer than MaxAux of their entries.
MaxLog == 7

MaxAux == 2

LifecycleStates == {"Created", "Started", "Resumed", "Paused", "Stopped", "Destroyed"}

ServiceNames == {"window", "layout_inflater", "activity", "input_method", "location"}

\* The services in the order initializeSystemServices inserts them.
ServiceOrder == <<"window", "layout_inflater", "activity", "input_method", "location">>

DefaultSavedState == [data |-> <<>>, is_finishing |-> FALSE, has_focus |-> FALSE]

\* SavedState values a caller may hand to onRestoreInstanceState besides the one
\* it got from onSaveInstanceState.
SavedStates == {[data |-> << <<"k", "v">> >>, is_finishing |-> FALSE, has_focus |-> TRUE],
                [data |-> <<>>, is_finishing |-> TRUE, has_focus |-> FALSE]}

Intents == {"android.intent.action.MAIN"}

AuxEvents == {"Saving instance state", "Restoring instance state",
              "Window focus changed: gained focus", "Window focus changed: lost focus"}
             \cup {"Starting new activity: " \o i : i \in Intents}

\* One activity object while a call runs: the fields a lifecycle callback reads
\* or writes, plus the trace of the values written to state.value, the
\* allocation that is going to fail, and the exception in flight ("" if none).
ActObj == [state |-> act_state, log |-> lifecycle_log, services |-> system_services,
           trace |-> <<act_state>>, fault |-> act_fault, thrown |-> ""]

\* One allocation: it throws std::bad_alloc if it is the failing one.  While an
\* exception is in flight the statements that follow the throw are not run.
Allocates(a) == [a EXCEPT !.fault = IF @ > 0 THEN @ - 1 ELSE 0,
                          !.thrown = IF a.fault = 1 THEN "std::bad_alloc" ELSE ""]

\* A log that keeps its latest entry only.
logLifecycleEvent_keepsLast(a, event) ==
    IF a.thrown # "" THEN a
    ELSE LET a1 == Allocates(a)
         IN  IF a1.thrown # "" THEN a1 ELSE [a1 EXCEPT !.log = <<event>>]

logLifecycleEvent(a, event) ==
    IF a.thrown # "" THEN a
    ELSE LET a1 == Allocates(a)
         IN  IF a1.thrown # "" THEN a1 ELSE [a1 EXCEPT !.log = Append(@, event)]

SetState(a, v) ==
    IF a.thrown # "" THEN a ELSE [a EXCEPT !.state = v, !.trace = Append(@, v)]

\* system_services[name] = nullptr for the names from the i-th on.
RECURSIVE InsertServicesFrom(_, _)
InsertServicesFrom(a, i) ==
    IF a.thrown # "" \/ i > Len(ServiceOrder) THEN a
    ELSE IF ServiceOrder[i] \in a.services THEN InsertServicesFrom(a, i + 1)
    ELSE LET a1 == Allocates(a)
         IN  IF a1.thrown # "" THEN a1
             ELSE InsertServicesFrom([a1 EXCEPT !.services = @ \cup {ServiceOrder[i]}],
                                     i + 1)

initializeSystemServices(a) ==
    logLifecycleEvent(InsertServicesFrom(a, 1), "System services initialized")

cleanupSystemServices(a) ==
    IF a.thrown # "" THEN a
    ELSE logLifecycleEvent([a EXCEPT !.services = {}], "System services cleaned up")

\* catch (const std::exception& e) { logLifecycleEvent(name + " failed: " + what); throw; }
Catch(a, name) ==
    IF a.thrown = "" THEN a
    ELSE [logLifecycleEvent([a EXCEPT !.thrown = ""], name \o " failed: " \o a.thrown)
             EXCEPT !.thrown = a.thrown]

\* The next statement of a sequence: not reached while an exception is in flight.
Then(a, Op(_)) == IF a.thrown # "" THEN a ELSE Op(a)

implOnCreate(a) ==
    IF a.state # "Created" THEN a
    ELSE Catch(SetState(initializeSystemServices(logLifecycleEvent(a, "onCreate called")),
                        "Created"),
               "onCreate")

implOnStart(a) ==
    IF a.state # "Created" /\ a.state # "Stopped" THEN a
    ELSE Catch(SetState(logLifecycleEvent(a, "onStart called"), "Started"), "onStart")

\* A resume that writes the state before it logs.
implOnResume_commitFirst(a) ==
    IF a.state # "Started" /\ a.state # "Paused" THEN a
    ELSE Catch(logLifecycleEvent(SetState(a, "Resumed"), "onResume called"), "onResume")

implOnResume(a) ==
    IF a.state # "Started" /\ a.state # "Paused" THEN a
    ELSE Catch(SetState(logLifecycleEvent(a, "onResume called"), "Resumed"), "onResume")

\* A pause that writes its log entry before it tests the guard.
implOnPause_logFirst(a) ==
    LET a1 == logLifecycleEvent(a, "onPause called")
    IN  IF a.state # "Resumed" THEN a1 ELSE SetState(a1, "Paused")

implOnPause(a) ==
    IF a.state # "Resumed" THEN a
    ELSE Catch(SetState(logLifecycleEvent(a, "onPause called"), "Paused"), "onPause")

\* A stop guard that also lets Resumed through.
implOnStop_fromResumed(a) ==
    IF a.state # "Paused" /\ a.state # "Resumed" THEN a
    ELSE SetState(logLifecycleEvent(a, "onStop called"), "Stopped")

implOnStop(a) ==
    IF a.state # "Paused" THEN a
    ELSE Catch(SetState(logLifecycleEvent(a, "onStop called"), "Stopped"), "onStop")

\* A destroy guarded like the other callbacks: valid from Stopped only.
implOnDestroy_fromStopped(a) ==
    IF a.state # "Stopped" THEN a
    ELSE SetState(cleanupSystemServices(logLifecycleEvent(a, "onDestroy called")),
                  "Destroyed")

implOnDestroy(a) ==
    IF a.state = "Destroyed" THEN a
    ELSE Catch(SetState(cleanupSystemServices(logLifecycleEvent(a, "onDestroy called")),
                        "Destroyed"),
               "onDestroy")

\* A finish that goes straight to destroy.
implFinish_destroyOnly(a) ==
    Then(logLifecycleEvent(a, "Activity finishing"), implOnDestroy)

implFinish(a) ==
    Then(Then(Then(logLifecycleEvent(a, "Activity finishing"), implOnPause),
              implOnStop),
         implOnDestroy)

\* Writes an activity object back to the fields.
Commit(a, op) ==
    /\ act_state' = a.state
    /\ lifecycle_log' = a.log
    /\ system_services' = a.services
    /\ act_fault' = a.fault
    /\ g_act_thrown' = a.thrown
    /\ g_act_trace' = a.trace
    /\ g_act_op' = op

LogRoom == Len(lifecycle_log) < MaxLog

AuxRoom == Cardinality({i \in DOMAIN lifecycle_log : lifecycle_log[i] \in AuxEvents}) < MaxAux

onCreate ==
    /\ ActFrame
    /\ LogRoom
    /\ Commit(implOnCreate(ActObj), "onCreate")
    /\ UNCHANGED <<is_finishing, has_window_focus, saved_state, out_state>>

onStart ==
    /\ ActFrame
    /\ LogRoom
    /\ Commit(implOnStart(ActObj), "onStart")
    /\ UNCHANGED <<is_finishing, has_window_focus, saved_state, out_state>>

onResume ==
    /\ ActFrame
    /\ LogRoom
    /\ Commit(implOnResume(ActObj), "onResume")
    /\ UNCHANGED <<is_finishing, has_window_focus, saved_state, out_state>>

onPause ==
    /\ ActFrame
    /\ LogRoom
    /\ Commit(implOnPause(ActObj), "onPause")
    /\ UNCHANGED <<is_finishing, has_window_focus, saved_state, out_state>>

onStop ==
    /\ ActFrame
    /\ LogRoom
    /\ Commit(implOnStop(ActObj), "onStop")
    /\ UNCHANGED <<is_finishing, has_window_focus, saved_state, out_state>>

onDestroy ==
    /\ ActFrame
    /\ LogRoom
    /\ Commit(implOnDestroy(ActObj), "onDestroy")
    /\ UNCHANGED <<is_finishing, has_window_focus, saved_state, out_state>>

finish ==
    /\ ActFrame
    /\ LogRoom
    /\ IF ~is_finishing
         THEN /\ is_finishing' = TRUE
              /\ Commit(implFinish(ActObj), "finish")
         ELSE /\ is_finishing' = is_finishing
              /\ Commit(ActObj, "finish")
    /\ UNCHANGED <<has_window_focus, saved_state, out_state>>

\* A save that copies the stored snapshot and leaves the two flags out.
onSaveInstanceState_noFlags ==
    /\ ActFrame
    /\ LET a == logLifecycleEvent(ActObj, "Saving instance state")
       IN  /\ Commit(a, "onSaveInstanceState")
           /\ out_state' = IF a.thrown # "" THEN out_state ELSE saved_state
    /\ UNCHANGED <<is_finishing, has_window_focus, saved_state>>

onSaveInstanceState ==
    /\ ActFrame
    /\ LET a == logLifecycleEvent(ActObj, "Saving instance state")
       IN  /\ Commit(a, "onSaveInstanceState")
           /\ out_state' = IF a.thrown # "" THEN out_state
                            ELSE [saved_state EXCEPT !.is_finishing = is_finishing,
                                                     !.has_focus = has_window_focus]
    /\ UNCHANGED <<is_finishing, has_window_focus, saved_state>>

\* A restore that takes the activity back to Created.
onRestoreInstanceState_resetsState(savedState) ==
    /\ ActFrame
    /\ LET a == SetState(logLifecycleEvent(ActObj, "Restoring instance state"), "Created")
       IN  /\ Commit(a, "onRestoreInstanceState")
           /\ saved_state' = IF a.thrown # "" THEN saved_state ELSE savedState
           /\ has_window_focus' = IF a.thrown # "" THEN has_window_focus
                                   ELSE savedState.has_focus
    /\ UNCHANGED <<is_finishing, out_state>>

onRestoreInstanceState(savedState) ==
    /\ ActFrame
    /\ LET a == logLifecycleEvent(ActObj, "Restoring instance state")
       IN  /\ Commit(a, "onRestoreInstanceState")
           /\ saved_state' = IF a.thrown # "" THEN saved_state ELSE savedState
           /\ has_window_focus' = IF a.thrown # "" THEN has_window_focus
                                   ELSE savedState.has_focus
    /\ UNCHANGED <<is_finishing, out_state>>

onWindowFocusChanged(hasFocus) ==
    /\ ActFrame
    /\ has_window_focus' = hasFocus
    /\ Commit(logLifecycleEvent(ActObj, IF hasFocus THEN "Window focus changed: gained focus"
                                                    ELSE "Window focus changed: lost focus"),
              "onWindowFocusChanged")
    /\ UNCHANGED <<is_finishing, saved_state, out_state>>

activityStartActivity(intent) ==
    /\ ActFrame
    /\ Commit(logLifecycleEvent(ActObj, "Starting new activity: " \o intent), "startActivity")
    /\ UNCHANGED <<is_finishing, has_window_focus, saved_state, out_state>>

\* The environment: the k-th allocation from now is going to fail.
allocationFault(k) ==
    /\ ActFrame
    /\ act_fault = 0
    /\ act_fault' = k
    /\ UNCHANGED <<act_state, is_finishing, has_window_focus, lifecycle_log,
                   system_services, saved_state, out_state, g_act_thrown, g_act_trace,
                   g_act_op>>

InitActivity ==
    /\ act_state = "Created"
    /\ is_finishing = FALSE
    /\ has_window_focus = FALSE
    /\ lifecycle_log = <<"Constructed">>
    /\ system_services = {}
    /\ saved_state = DefaultSavedState
    /\ out_state = DefaultSavedState
    /\ act_fault = 0
    /\ g_act_thrown = ""
    /\ g_act_trace = <<"Created">>
    /\ g_act_op = "Activity"

NextActivity ==
    \/ onCreate
    \/ onStart
    \/ onResume
    \/ onPause
    \/ onStop
    \/ onDestroy
    \/ finish
    \/ AuxRoom /\ onSaveInstanceState
    \/ \E s \in {out_state} \cup SavedStates : AuxRoom /\ onRestoreInstanceState(s)
    \/ \E b \in BOOLEAN : AuxRoom /\ onWindowFocusChanged(b)
    \/ \E i \in Intents : AuxRoom /\ activityStartActivity(i)

\* SpecSnapshot explores save, restore and focus changes more deeply: up to
\* MaxSnap of them, made after the lifecycle calls.
MaxSnap == 3

NoSnapYet == \A i \in DOMAIN lifecycle_log : lifecycle_log[i] \notin AuxEvents

SnapRoom ==
    Cardinality({i \in DOMAIN lifecycle_log : lifecycle_log[i] \in AuxEvents}) < MaxSnap

NextSnapshot ==
    \/ NoSnapYet /\ onCreate
    \/ NoSnapYet /\ onStart
    \/ NoSnapYet /\ onResume
    \/ NoSnapYet /\ onPause
    \/ NoSnapYet /\ onStop
    \/ NoSnapYet /\ onDestroy
    \/ NoSnapYet /\ finish
    \/ SnapRoom /\ onSaveInstanceState
    \/ \E s \in {out_state} \cup SavedStates : SnapRoom /\ onRestoreInstanceState(s)
    \/ \E b \in BOOLEAN : SnapRoom /\ onWindowFocusChanged(b)

\* SpecFaults explores the lifecycle calls with allocation failures: the failing
\* allocation is any of the next MaxFaultAt, and at most MaxFaults allocations
\* fail in a run.
MaxFaultAt == 7

MaxFaults == 1

FailureEntries == {op \o " failed: std::bad_alloc" :
                     op \in {"onCreate", "onStart", "onResume", "onPause", "onStop",
                              "onDestroy"}}

FaultRoom ==
    Cardinality({i \in DOMAIN lifecycle_log : lifecycle_log[i] \in FailureEntries})
      < MaxFaults

NextFaults ==
    \/ onCreate
    \/ onStart
    \/ onResume
    \/ onPause
    \/ onStop
    \/ onDestroy
    \/ finish
    \/ \E k \in 1 .. MaxFaultAt : LogRoom /\ FaultRoom /\ allocationFault(k)

-----------------------------------------------------------------------------
(* Runtime::Impl                                                            *)

\* initialize and startActivity are explored while the class table holds at
\* most MaxClasses entries.
MaxClasses == 8

RuntimeStates == {"NotInitialized", "Ready", "Running", "Stopped", "Error"}

core_classes == <<"android.app.Activity", "android.content.Context",
                  "android.os.Bundle", "android.view.View">>

native_funcs == <<"android.os.SystemClock.nativeCurrentTimeMillis",
                  "android.os.SystemClock.nativeElapsedRealtime",
                  "android.graphics.Canvas.nativeCreate",
                  "android.view.Surface.nativeCreateFromSurfaceTexture">>

RuntimeConfigs == {[system_dir |-> "/system", debug_mode |-> FALSE],
                   [system_dir |-> "/opt/android", debug_mode |-> TRUE]}

ActivityNames == {"com.example.test.MainActivity", "android.app.Activity"}

\* Where a boot may fault: 0 nowhere; k in 1..4 the vector insertion of the k-th
\* core class throws (caught in loadClass, which returns false); k in 5..8 the
\* map insertion of the (k-4)-th native stub throws (caught in initialize).
BootFaults == 0 .. (Len(core_classes) + Len(native_funcs))

\* One runtime object while a call runs.
RtObj == [state |-> rt_state, classes |-> loaded_classes, natives |-> native_methods,
          activities |-> rt_activities,
          log |-> <<>>, ok |-> TRUE, thrown |-> FALSE, result |-> "void"]

log(r, message) == IF rt_callback THEN [r EXCEPT !.log = Append(@, message)] ELSE r

\* loadClass(class_name); fault: the insertion throws.
\* A loadClass that assigns the table instead of appending to it.
loadClass_replaces(r, class_name, fault) ==
    LET r1 == log(r, "Loading class: " \o class_name)
    IN  IF fault
          THEN [log(r1, "Error loading class: std::bad_alloc") EXCEPT !.ok = FALSE]
          ELSE [r1 EXCEPT !.classes = <<class_name>>, !.ok = TRUE]

loadClass(r, class_name, fault) ==
    LET r1 == log(r, "Loading class: " \o class_name)
    IN  IF fault
          THEN [log(r1, "Error loading class: std::bad_alloc") EXCEPT !.ok = FALSE]
          ELSE [r1 EXCEPT !.classes = Append(@, class_name), !.ok = TRUE]

RECURSIVE loadCoreClassesFrom(_, _, _)
loadCoreClassesFrom(r, i, fault) ==
    IF i > Len(core_classes) THEN [r EXCEPT !.ok = TRUE]
    ELSE LET r1 == loadClass(r, core_classes[i], fault = i)
         IN  IF ~r1.ok
               THEN [log(r1, "Failed to load core class: " \o core_classes[i])
                        EXCEPT !.ok = FALSE]
               ELSE loadCoreClassesFrom(r1, i + 1, fault)

loadCoreClasses(r, fault) == loadCoreClassesFrom(r, 1, fault)

\* registerNativeMethod(name, func); fault: the map insertion throws.
registerNativeMethod(r, name, fault) ==
    LET r1 == log(r, "Registering native method: " \o name)
    IN  IF fault THEN [r1 EXCEPT !.thrown = TRUE]
        ELSE [r1 EXCEPT !.natives = @ \cup {name}, !.ok = TRUE]

RECURSIVE registerNativeMethodsFrom(_, _, _)
registerNativeMethodsFrom(r, i, fault) ==
    IF i > Len(native_funcs) THEN [r EXCEPT !.ok = TRUE]
    ELSE LET r1 == registerNativeMethod(r, native_funcs[i], fault = Len(core_classes) + i)
         IN  IF r1.thrown THEN r1
             ELSE registerNativeMethodsFrom(r1, i + 1, fault)

registerNativeMethods(r, fault) == registerNativeMethodsFrom(r, 1, fault)

initializeVM(r, fault) ==
    LET r1 == loadCoreClasses(log(r, "Initializing Android Runtime"), fault)
    IN  IF ~r1.ok THEN r1 ELSE registerNativeMethods(r1, fault)

\* An initialize that reports Ready whatever initializeVM returned.
implInitialize_ignoreFailure(r, fault) ==
    LET r1 == initializeVM(r, fault)
    IN  IF r1.thrown
          THEN [log(r1, "Runtime initialization failed: std::bad_alloc")
                   EXCEPT !.state = "Error", !.ok = FALSE, !.thrown = FALSE]
        ELSE [log([r1 EXCEPT !.state = "Ready"], "Runtime initialized successfully")
                 EXCEPT !.ok = TRUE]

implInitialize(r, fault) ==
    LET r1 == initializeVM(r, fault)
    IN  IF r1.thrown
          THEN [log(r1, "Runtime initialization failed: std::bad_alloc")
                   EXCEPT !.state = "Error", !.ok = FALSE, !.thrown = FALSE]
        ELSE IF ~r1.ok
          THEN [r1 EXCEPT !.state = "Error", !.ok = FALSE]
        ELSE [log([r1 EXCEPT !.state = "Ready"], "Runtime initialized successfully")
                 EXCEPT !.ok = TRUE]

CommitRt(r, result, op) ==
    /\ rt_state' = r.state
    /\ loaded_classes' = r.classes
    /\ native_methods' = r.natives
    /\ rt_activities' = r.activities
    /\ g_rt_log' = r.log
    /\ g_rt_result' = result
    /\ g_rt_op' = op

ClassRoom == Len(loaded_classes) <= MaxClasses

initialize(cfg, fault) ==
    /\ RtFrame
    /\ ClassRoom
    /\ rt_config' = cfg
    /\ LET r == implInitialize(RtObj, fault) IN CommitRt(r, r.ok, "initialize")
    /\ UNCHANGED rt_callback

getState == rt_state

\* A guard that also turns away Running only: a start from NotInitialized,
\* Stopped or Error would go on to load the class.
implStartActivity_guardRunningOnly(r, activity_name, fault) ==
    IF r.state = "Running" THEN [r EXCEPT !.result = "RuntimeError"]
    ELSE LET r1 == loadClass(log(r, "Starting activity: " \o activity_name),
                             activity_name, fault)
         IN  IF ~r1.ok THEN [r1 EXCEPT !.result = "ClassNotFound"]
             ELSE [r1 EXCEPT !.state = "Running", !.result = "Success"]

implStartActivity(r, activity_name, fault) ==
    IF r.state # "Ready" THEN [r EXCEPT !.result = "RuntimeError"]
    ELSE LET r1 == loadClass(log(r, "Starting activity: " \o activity_name),
                             activity_name, fault)
         IN  IF ~r1.ok THEN [r1 EXCEPT !.result = "ClassNotFound"]
             ELSE [r1 EXCEPT !.state = "Running", !.result = "Success"]

startActivity(activity_name, fault) ==
    /\ RtFrame
    /\ ClassRoom
    /\ LET r == implStartActivity(RtObj, activity_name, fault)
       IN  CommitRt(r, r.result, "startActivity")
    /\ UNCHANGED <<rt_config, rt_callback>>

setEventCallback(cb) ==
    /\ RtFrame
    /\ rt_callback' = cb
    /\ g_rt_log' = <<>>
    /\ g_rt_result' = "void"
    /\ g_rt_op' = "setEventCallback"
    /\ UNCHANGED <<rt_config, rt_state, loaded_classes, native_methods, rt_activities>>

getStats == [loaded_classes_count |-> Len(loaded_classes),
             native_methods_count |-> Cardinality(native_methods),
             current_state |-> rt_state]

\* A shutdown that clears the class table only.
implShutdown_keepNatives(r) ==
    IF r.state = "Running" \/ r.state = "Ready"
      THEN [log(r, "Shutting down runtime") EXCEPT !.classes = <<>>, !.state = "Stopped"]
      ELSE r

implShutdown(r) ==
    IF r.state = "Running" \/ r.state = "Ready"
      THEN [log(r, "Shutting down runtime")
               EXCEPT !.classes = <<>>, !.natives = {}, !.state = "Stopped"]
      ELSE r

shutdown ==
    /\ RtFrame
    /\ CommitRt(implShutdown(RtObj), "void", "shutdown")
    /\ UNCHANGED <<rt_config, rt_callback>>

InitRuntime ==
    /\ rt_config = [system_dir |-> "", debug_mode |-> FALSE]
    /\ rt_state = "NotInitialized"
    /\ loaded_classes = <<>>
    /\ native_methods = {}
    /\ rt_callback = FALSE
    /\ rt_activities = <<>>
    /\ g_rt_log = <<>>
    /\ g_rt_result = "void"
    /\ g_rt_op = "Runtime"

NextRuntime ==
    \/ \E cfg \in RuntimeConfigs, fault \in BootFaults : initialize(cfg, fault)
    \/ \E n \in ActivityNames, fault \in BOOLEAN : startActivity(n, fault)
    \/ \E cb \in BOOLEAN : setEventCallback(cb)
    \/ shutdown

-----------------------------------------------------------------------------
(* API::Impl                                                                *)

MAX_API_CALLS_PER_SECOND == 1000

\* The clock advances in ticks, TicksPerSecond of them to the second, up to
\* MaxTime.  SpecGateway explores the registry and the handlers within one
\* second, while the limiter's counter is below MaxCalls; SpecRate lets time
\* pass and explores up to MaxOverLimit calls beyond the capacity of a window.
TicksPerSecond == 2

MaxTime == 4

MaxCalls == 2

MaxOverLimit == 2

ANDROID_10 == 29

ANDROID_11 == 30

ANDROID_13 == 33

ANDROID_14 == 34

DefaultIdentity == [package_name |-> "", version_name |-> "", version_code |-> 0,
                    min_sdk_level |-> ANDROID_10, target_sdk_level |-> ANDROID_13]

APIConfigs == {[package_name |-> "com.example.test", version_name |-> "1.0.0",
                version_code |-> 1, min_sdk_level |-> ANDROID_10,
                target_sdk_level |-> ANDROID_13],
               [package_name |-> "org.other.app", version_name |-> "2.1",
                version_code |-> 7, min_sdk_level |-> ANDROID_11,
                target_sdk_level |-> ANDROID_14]}

\* The configuration SpecRate initializes with.
RateConfigs == {c \in APIConfigs : c.package_name = "com.example.test"}

EmptyMap == [x \in {} |-> ""]

MapPut(f, k, v) == [x \in DOMAIN f \cup {k} |-> IF x = k THEN v ELSE f[x]]

\* registerDefaultHandlers(): the three built-in methods.
registerDefaultHandlers(h) ==
    MapPut(MapPut(MapPut(h, "getApiLevel", "handleGetApiLevel"),
                  "checkPermission", "handleCheckPermission"),
           "registerNativeMethod", "handleRegisterNativeMethod")

\* Handlers a caller registers: f and g answer once with their own name, thrower
\* raises std::runtime_error("boom") without answering, thrower_int executes
\* `throw 42;` without answering.
CustomHandlers == {"f", "g", "thrower", "thrower_int"}

HandlerNames == {"getApiLevel", "custom"}

\* The requests explored.  The "pointer" parameter is a character sequence, so
\* that std::stoull has something to parse.
Requests ==
    {[method |-> "getApiLevel", params |-> EmptyMap],
     [method |-> "checkPermission",
      params |-> [permission |-> "android.permission.INTERNET"]],
     [method |-> "checkPermission",
      params |-> [permission |-> "android.permission.CAMERA"]],
     [method |-> "checkPermission", params |-> EmptyMap],
     [method |-> "registerNativeMethod",
      params |-> [name |-> "m1", pointer |-> <<"1", "2">>]],
     [method |-> "registerNativeMethod",
      params |-> [name |-> "m1", pointer |-> <<" ", "7", "x">>]],
     [method |-> "registerNativeMethod",
      params |-> [name |-> "m1", pointer |-> <<"-", "1">>]],
     [method |-> "registerNativeMethod",
      params |-> [name |-> "m1", pointer |-> <<"x", "7">>]],
     [method |-> "registerNativeMethod", params |-> [name |-> "m1"]],
     [method |-> "registerNativeMethod", params |-> [pointer |-> <<"1", "2">>]],
     [method |-> "custom", params |-> EmptyMap],
     [method |-> "nosuch", params |-> EmptyMap]}

RateRequests ==
    {[method |-> "getApiLevel", params |-> EmptyMap],
     [method |-> "nosuch", params |-> EmptyMap]}

DigitChars == {"0", "1", "2", "3", "4", "5", "6", "7", "8", "9"}

DigitVal(c) ==
    CASE c = "0" -> 0 [] c = "1" -> 1 [] c = "2" -> 2 [] c = "3" -> 3 [] c = "4" -> 4
      [] c = "5" -> 5 [] c = "6" -> 6 [] c = "7" -> 7 [] c = "8" -> 8 [] c = "9" -> 9

RECURSIVE SkipSpace(_, _)
SkipSpace(s, i) == IF i <= Len(s) /\ s[i] = " " THEN SkipSpace(s, i + 1) ELSE i

RECURSIVE ParseDigits(_, _, _, _)
ParseDigits(s, i, n, acc) ==
    IF i <= Len(s) /\ s[i] \in DigitChars
      THEN ParseDigits(s, i + 1, n + 1, acc * 10 + DigitVal(s[i]))
      ELSE [count |-> n, value |-> acc]

\* std::stoull(str) in base 10 on inputs of a few characters (no overflow of
\* unsigned long long): leading spaces and one sign are skipped, the longest
\* digit prefix is converted and what follows it is ignored; no digit at all
\* throws std::invalid_argument.  A minus sign negates modulo 2^64: the token
\* [wrapped |-> TRUE, mag |-> m] stands for 2^64 - m.
stoull(s) ==
    LET i0 == SkipSpace(s, 1)
        signed == i0 <= Len(s) /\ s[i0] \in {"+", "-"}
        neg == signed /\ s[i0] = "-"
        d == ParseDigits(s, IF signed THEN i0 + 1 ELSE i0, 0, 0)
    IN  IF d.count = 0 THEN [ok |-> FALSE, what |-> "stoull"]
        ELSE [ok |-> TRUE, what |-> "",
              value |-> [wrapped |-> neg /\ d.value # 0, mag |-> d.value]]

Response(success, data, error) == [success |-> success, data |-> data, error |-> error]

\* One gateway object while a call runs.
\* thrown is "" while no exception is in flight, else what() of the exception
\* (or the value thrown); std_exception tells whether its type derives from
\* std::exception.
ApiObj == [initialized |-> api_initialized, identity |-> api_identity,
           natives |-> native_functions, handlers |-> handlers,
           handlers_mutex |-> handlers_mutex,
           count |-> api_calls_count, reset |-> last_rate_reset,
           responses |-> <<>>, invoked |-> <<>>, thrown |-> "",
           std_exception |-> TRUE, callback_throws |-> FALSE]

\* request.callback(response): the caller's function receives the response; one
\* that throws is taken to throw an exception derived from std::exception.
callback(g, response) ==
    LET g1 == [g EXCEPT !.responses = Append(@, response)]
    IN  IF g.callback_throws
          THEN [g1 EXCEPT !.thrown = "callback", !.std_exception = TRUE]
          ELSE g1

\* throw of an exception object derived from std::exception.
Throw(g, what) == [g EXCEPT !.thrown = what, !.std_exception = TRUE]

\* throw of a value whose type does not derive from std::exception.
ThrowValue(g, value) == [g EXCEPT !.thrown = value, !.std_exception = FALSE]

\* std::lock_guard<std::mutex> lock(handlers_mutex): the constructor, and the
\* destructor that runs when the scope is left by return or by an exception.
lock(g) == [g EXCEPT !.handlers_mutex = "locked"]

unlock(g) == [g EXCEPT !.handlers_mutex = "unlocked"]

handleGetApiLevel(g, req) ==
    callback(g, Response(TRUE, ToString(g.identity.target_sdk_level), ""))

handleCheckPermission(g, req) ==
    IF "permission" \notin DOMAIN req.params THEN Throw(g, "map::at")
    ELSE LET permission == req.params["permission"]
             granted == \/ permission = "android.permission.INTERNET"
                        \/ permission = "android.permission.READ_EXTERNAL_STORAGE"
                        \/ permission = "android.permission.WRITE_EXTERNAL_STORAGE"
         IN  callback(g, Response(TRUE, IF granted THEN "granted" ELSE "denied", ""))

handleRegisterNativeMethod(g, req) ==
    IF "name" \notin DOMAIN req.params THEN Throw(g, "map::at")
    ELSE IF "pointer" \notin DOMAIN req.params THEN Throw(g, "map::at")
    ELSE LET method_name == req.params["name"]
             parsed == stoull(req.params["pointer"])
         IN  IF ~parsed.ok THEN Throw(g, parsed.what)
             ELSE callback([g EXCEPT !.natives = MapPut(@, method_name, parsed.value)],
                           Response(TRUE, "Native method registered: " \o method_name, ""))

\* The call it->second(request).
Invoke(g, h, req) ==
    LET g1 == [g EXCEPT !.invoked = Append(@, h)]
    IN  CASE h = "handleGetApiLevel" -> handleGetApiLevel(g1, req)
          [] h = "handleCheckPermission" -> handleCheckPermission(g1, req)
          [] h = "handleRegisterNativeMethod" -> handleRegisterNativeMethod(g1, req)
          [] h = "thrower" -> Throw(g1, "boom")
          [] h = "thrower_int" -> ThrowValue(g1, "42")
          [] OTHER -> callback(g1, Response(TRUE, h, ""))

\* The admission test of checkRateLimit.
\* Off by one: admits while the counter is at most the capacity.
OverLimit_offByOne(count) == count > MAX_API_CALLS_PER_SECOND

OverLimit(count) == count >= MAX_API_CALLS_PER_SECOND

\* checkRateLimit() called at time now: the object, and whether the call passed.
\* checkRateLimit() up to its test (api.cpp:86-94): a window that has lasted a
\* second or more is restarted.
resetWindow(g, now) ==
    LET elapsed == (now - g.reset) \div TicksPerSecond
    IN  IF elapsed >= 1 THEN [g EXCEPT !.count = 0, !.reset = now] ELSE g

\* A checkRateLimit that counts the call before it tests the counter.
checkRateLimit_countsRejected(g, now) ==
    LET g1 == [resetWindow(g, now) EXCEPT !.count = @ + 1]
    IN  [obj |-> g1, pass |-> g1.count <= MAX_API_CALLS_PER_SECOND]

checkRateLimit(g, now) ==
    LET g1 == resetWindow(g, now)
    IN  IF OverLimit(g1.count) THEN [obj |-> g1, pass |-> FALSE]
        ELSE [obj |-> [g1 EXCEPT !.count = @ + 1], pass |-> TRUE]

\* An initialize that overwrites instead of refusing.
implApiInitialize_noCheck(g, config) ==
    [g EXCEPT !.identity = config, !.initialized = TRUE]

implApiInitialize(g, config) ==
    IF g.initialized THEN Throw(g, "API already initialized")
    ELSE [g EXCEPT !.identity = config, !.initialized = TRUE]

\* handleRequest from the lookup on (api.cpp:148-164), run with handlers_mutex
\* held: the catch clause takes exceptions derived from std::exception; any
\* other leaves handleRequest.
lookupAndInvoke(g, request) ==
    IF request.method \notin DOMAIN g.handlers
      THEN callback(g, Response(FALSE, "", "Unknown method: " \o request.method))
    ELSE LET r == Invoke(g, g.handlers[request.method], request)
         IN  IF r.thrown # "" /\ r.std_exception
               THEN callback([r EXCEPT !.thrown = ""],
                             Response(FALSE, "", "Handler error: " \o r.thrown))
               ELSE r

\* A handleRequest that forgets the initialized test.
implHandleRequest_noInitCheck(g, request, now) ==
    LET rl == checkRateLimit(g, now)
    IN  IF ~rl.pass THEN callback(rl.obj, Response(FALSE, "", "Rate limit exceeded"))
        ELSE unlock(lookupAndInvoke(lock(rl.obj), request))

\* A handleRequest that looks the handler up before it asks the limiter.
implHandleRequest_lookupFirst(g, request, now) ==
    IF ~g.initialized THEN callback(g, Response(FALSE, "", "API not initialized"))
    ELSE IF request.method \notin DOMAIN g.handlers
      THEN callback(g, Response(FALSE, "", "Unknown method: " \o request.method))
    ELSE LET rl == checkRateLimit(g, now)
         IN  IF ~rl.pass THEN callback(rl.obj, Response(FALSE, "", "Rate limit exceeded"))
             ELSE unlock(lookupAndInvoke(lock(rl.obj), request))

implHandleRequest(g, request, now) ==
    IF ~g.initialized THEN callback(g, Response(FALSE, "", "API not initialized"))
    ELSE LET rl == checkRateLimit(g, now)
         IN  IF ~rl.pass THEN callback(rl.obj, Response(FALSE, "", "Rate limit exceeded"))
             ELSE unlock(lookupAndInvoke(lock(rl.obj), request))

CommitApi(g, op) ==
    /\ api_initialized' = g.initialized
    /\ api_identity' = g.identity
    /\ native_functions' = g.natives
    /\ handlers' = g.handlers
    /\ handlers_mutex' = g.handlers_mutex
    /\ api_calls_count' = g.count
    /\ last_rate_reset' = g.reset
    /\ g_responses' = g.responses
    /\ g_invoked' = g.invoked
    /\ g_api_thrown' = g.thrown
    /\ g_api_op' = op

apiInitialize(config) ==
    /\ ApiFrame
    /\ UNCHANGED <<thr_pc, thr_req, rate_limit_mutex, g_admitted>>
    /\ CommitApi(implApiInitialize(ApiObj, config), "initialize")
    /\ UNCHANGED <<clock, g_request, g_win_start, g_win_calls, g_limited, g_registered>>

\* A registration that keeps the handler a name already has (map::insert).
implRegisterHandler_keepFirst(g, name, handler) ==
    unlock([lock(g) EXCEPT !.handlers = IF name \in DOMAIN @ THEN @
                                        ELSE MapPut(@, name, handler)])

implRegisterHandler(g, name, handler) ==
    unlock([lock(g) EXCEPT !.handlers = MapPut(@, name, handler)])

registerHandler(name, handler) ==
    /\ ApiFrame
    /\ UNCHANGED <<thr_pc, thr_req, rate_limit_mutex, g_admitted>>
    /\ CommitApi(implRegisterHandler(ApiObj, name, handler), "registerHandler")
    /\ g_registered' = MapPut(g_registered, name,
                              [handler |-> handler,
                               replaced |-> /\ name \in DOMAIN g_registered
                                            /\ g_registered[name].handler # handler])
    /\ UNCHANGED <<clock, g_request, g_win_start, g_win_calls, g_limited>>

\* The fixed window as the contract words it, counted apart from the code's
\* counter: a rate-checked call made a second or more after the window's start
\* opens a new window and is its first call.
WindowElapsed == clock - g_win_start >= TicksPerSecond

handleRequest(request) ==
    /\ ApiFrame
    /\ UNCHANGED <<thr_pc, thr_req, rate_limit_mutex, g_admitted>>
    /\ LET g == implHandleRequest(ApiObj, request, clock)
       IN  /\ CommitApi(g, "handleRequest")
           /\ g_request' = request
           /\ g_limited' = (g_limited \/ (\E i \in DOMAIN g.responses :
                                            g.responses[i].error = "Rate limit exceeded"))
    /\ IF ~api_initialized
         THEN UNCHANGED <<g_win_start, g_win_calls>>
         ELSE IF WindowElapsed
                THEN g_win_start' = clock /\ g_win_calls' = 1
                ELSE g_win_start' = g_win_start /\ g_win_calls' = g_win_calls + 1
    /\ UNCHANGED <<clock, g_registered>>

\* handleRequest with a request whose completion callback throws when invoked
\* (throws TRUE) or returns (throws FALSE).
handleRequestCb(request, throws) ==
    /\ ApiFrame
    /\ UNCHANGED <<thr_pc, thr_req, rate_limit_mutex, g_admitted>>
    /\ LET g == implHandleRequest([ApiObj EXCEPT !.callback_throws = throws], request, clock)
       IN  /\ CommitApi(g, "handleRequest")
           /\ g_request' = request
           /\ g_limited' = (g_limited \/ (\E i \in DOMAIN g.responses :
                                            g.responses[i].error = "Rate limit exceeded"))
    /\ IF ~api_initialized
         THEN UNCHANGED <<g_win_start, g_win_calls>>
         ELSE IF WindowElapsed
                THEN g_win_start' = clock /\ g_win_calls' = 1
                ELSE g_win_start' = g_win_start /\ g_win_calls' = g_win_calls + 1
    /\ UNCHANGED <<clock, g_registered>>

getNativeFunction(name) ==
    IF name \in DOMAIN native_functions THEN native_functions[name]
    ELSE [wrapped |-> FALSE, mag |-> 0]

isInitialized == api_initialized

\* Time passes.
Tick ==
    /\ ApiFrame
    /\ UNCHANGED <<thr_pc, thr_req, rate_limit_mutex, g_admitted>>
    /\ clock < MaxTime
    /\ clock' = clock + 1
    /\ UNCHANGED <<api_initialized, api_identity, native_functions, handlers,
                   handlers_mutex, api_calls_count, last_rate_reset, g_responses,
                   g_invoked, g_api_thrown, g_api_op, g_request, g_win_start,
                   g_win_calls, g_limited, g_registered>>

\* handleRequest called from several threads at once.  A thread reads
\* state.initialized (begin), takes rate_limit_mutex and runs checkRateLimit up
\* to its test (test), counts the call and releases the mutex (count), then
\* looks the handler up and runs it under handlers_mutex (dispatch).
Threads == {"t1", "t2"}

ThreadRequest == [method |-> "getApiLevel", params |-> EmptyMap]

\* A rate_limit_mutex that excludes nobody.
rateMutexFree_ignored == TRUE

\* std::lock_guard<std::mutex> lock(rate_limit_mutex) can return.
rateMutexFree == rate_limit_mutex = ""

thrBegin(t) ==
    /\ ApiFrame
    /\ UNCHANGED thr_req
    /\ thr_pc[t] = "idle"
    /\ IF ~api_initialized
         THEN /\ CommitApi(callback(ApiObj, Response(FALSE, "", "API not initialized")),
                           "handleRequest")
              /\ UNCHANGED thr_pc
         ELSE /\ CommitApi(ApiObj, "handleRequest")
              /\ thr_pc' = [thr_pc EXCEPT ![t] = "test"]
    /\ g_request' = ThreadRequest
    /\ UNCHANGED <<clock, rate_limit_mutex, g_admitted, g_win_start, g_win_calls,
                   g_limited, g_registered>>

thrTest(t) ==
    /\ ApiFrame
    /\ UNCHANGED thr_req
    /\ thr_pc[t] = "test"
    /\ rateMutexFree
    /\ LET g1 == resetWindow(ApiObj, clock)
           restarted == g1.reset # last_rate_reset
       IN  IF OverLimit(g1.count)
             THEN /\ CommitApi(callback(g1, Response(FALSE, "", "Rate limit exceeded")),
                               "handleRequest")
                  /\ thr_pc' = [thr_pc EXCEPT ![t] = "idle"]
                  /\ g_admitted' = IF restarted THEN 0 ELSE g_admitted
                  /\ UNCHANGED rate_limit_mutex
             ELSE /\ CommitApi(g1, "handleRequest")
                  /\ thr_pc' = [thr_pc EXCEPT ![t] = "count"]
                  /\ g_admitted' = IF restarted THEN 1 ELSE g_admitted + 1
                  /\ rate_limit_mutex' = t
    /\ UNCHANGED <<clock, g_request, g_win_start, g_win_calls, g_limited, g_registered>>

thrCount(t) ==
    /\ ApiFrame
    /\ UNCHANGED thr_req
    /\ thr_pc[t] = "count"
    /\ CommitApi([ApiObj EXCEPT !.count = @ + 1], "handleRequest")
    /\ thr_pc' = [thr_pc EXCEPT ![t] = "dispatch"]
    /\ rate_limit_mutex' = ""
    /\ UNCHANGED <<clock, g_admitted, g_request, g_win_start, g_win_calls, g_limited,
                   g_registered>>

thrDispatch(t) ==
    /\ ApiFrame
    /\ UNCHANGED thr_req
    /\ thr_pc[t] = "dispatch"
    /\ handlers_mutex = "unlocked"
    /\ CommitApi(unlock(lookupAndInvoke(lock(ApiObj), ThreadRequest)), "handleRequest")
    /\ thr_pc' = [thr_pc EXCEPT ![t] = "idle"]
    /\ UNCHANGED <<clock, rate_limit_mutex, g_admitted, g_request, g_win_start,
                   g_win_calls, g_limited, g_registered>>

\* handleRequest with handlers and completion callbacks that call back into the
\* gateway.  A handler is calls_registerHandler or calls_handleRequest; a
\* completion callback is plain, or calls one of the two when it is invoked.
\* The nested registerHandler registers f under "custom"; the nested
\* handleRequest asks for getApiLevel with a plain callback.
ReentrantHandlers == {"calls_registerHandler", "calls_handleRequest"}

CallbackKinds == {"plain", "calls_registerHandler", "calls_handleRequest"}

ReentryMethods == {"getApiLevel", "custom", "nosuch"}

ReentryRequests == [method : ReentryMethods, callback : CallbackKinds]

PlainRequest == [method |-> "getApiLevel", callback |-> "plain"]

\* A recursive mutex: its owner may lock it again.
canLockHandlers_recursive(t) == handlers_mutex \in {"unlocked", t}

\* std::lock_guard<std::mutex> lock(handlers_mutex) called by thread t can
\* return: std::mutex is not recursive, and on the POSIX builds of this
\* repository a thread that locks a mutex it holds waits for itself.
canLockHandlers(t) == handlers_mutex = "unlocked"

\* Where thread t stands once the code it called back into has returned.
BackTo(t) == IF handlers_mutex = t THEN "return" ELSE "idle"

\* Where thread t stands once its completion callback has been invoked.
AfterCallback(t, cb) ==
    CASE cb = "calls_registerHandler" -> "nested_register"
      [] cb = "calls_handleRequest" -> "nested_request"
      [] OTHER -> BackTo(t)

\* Thread t moves to pc; a thread that is back outside handleRequest holds no
\* request.
Land(t, pc, req) ==
    /\ thr_pc' = [thr_pc EXCEPT ![t] = pc]
    /\ thr_req' = [thr_req EXCEPT ![t] = IF pc = "idle" THEN PlainRequest ELSE req]

NotInitialized == Response(FALSE, "", "API not initialized")

RateExceeded == Response(FALSE, "", "Rate limit exceeded")

ReFrame == UNCHANGED <<clock, rate_limit_mutex, g_admitted, g_request, g_win_start,
                       g_win_calls, g_limited>>

\* handleRequest entered: the test of state.initialized (api.cpp:131-137).
reBegin(t, req) ==
    /\ ApiFrame /\ ReFrame
    /\ thr_pc[t] = "idle"
    /\ IF ~api_initialized
         THEN /\ CommitApi(callback(ApiObj, NotInitialized), "handleRequest")
              /\ Land(t, AfterCallback(t, req.callback), req)
         ELSE /\ CommitApi(ApiObj, "handleRequest")
              /\ Land(t, "test", req)
    /\ UNCHANGED g_registered

\* checkRateLimit and the response to a refused call (api.cpp:139-145).
reTest(t) ==
    /\ ApiFrame /\ ReFrame
    /\ thr_pc[t] = "test"
    /\ rateMutexFree
    /\ LET rl == checkRateLimit(ApiObj, clock)
       IN  IF ~rl.pass
             THEN /\ CommitApi(callback(rl.obj, RateExceeded), "handleRequest")
                  /\ Land(t, AfterCallback(t, thr_req[t].callback), thr_req[t])
             ELSE /\ CommitApi(rl.obj, "handleRequest")
                  /\ Land(t, "dispatch", thr_req[t])
    /\ UNCHANGED g_registered

\* std::lock_guard<std::mutex> lock(handlers_mutex) (api.cpp:147).
reLock(t) ==
    /\ ApiFrame /\ ReFrame
    /\ thr_pc[t] = "dispatch"
    /\ canLockHandlers(t)
    /\ CommitApi([ApiObj EXCEPT !.handlers_mutex = t], "handleRequest")
    /\ Land(t, "invoke", thr_req[t])
    /\ UNCHANGED g_registered

\* The lookup and the handler call, made with the mutex held (api.cpp:148-164).
\* An exception that the catch clause does not take leaves handleRequest.
reInvoke(t) ==
    /\ ApiFrame /\ ReFrame
    /\ thr_pc[t] = "invoke"
    /\ LET method == thr_req[t].method
       IN  IF method \in DOMAIN handlers /\ handlers[method] \in ReentrantHandlers
             THEN /\ CommitApi([ApiObj EXCEPT !.invoked = <<handlers[method]>>],
                               "handleRequest")
                  /\ Land(t, IF handlers[method] = "calls_registerHandler"
                               THEN "nested_register" ELSE "nested_request", thr_req[t])
             ELSE LET g == lookupAndInvoke(ApiObj, [method |-> method, params |-> EmptyMap])
                  IN  /\ CommitApi(g, "handleRequest")
                      /\ Land(t, IF g.responses = <<>> THEN "return"
                                 ELSE AfterCallback(t, thr_req[t].callback), thr_req[t])
    /\ UNCHANGED g_registered

\* registerHandler("custom", f) called from a handler or a completion callback
\* (api.cpp:124-128).
reNestedRegister(t) ==
    /\ ApiFrame /\ ReFrame
    /\ thr_pc[t] = "nested_register"
    /\ canLockHandlers(t)
    /\ CommitApi([ApiObj EXCEPT !.handlers = MapPut(@, "custom", "f")], "registerHandler")
    /\ g_registered' = MapPut(g_registered, "custom",
                              [handler |-> "f",
                               replaced |-> /\ "custom" \in DOMAIN g_registered
                                            /\ g_registered["custom"].handler # "f"])
    /\ Land(t, BackTo(t), thr_req[t])

\* handleRequest(getApiLevel) called from a handler or a completion callback:
\* its initialized test and its rate check (api.cpp:131-145).
reNestedRequest(t) ==
    /\ ApiFrame /\ ReFrame
    /\ thr_pc[t] = "nested_request"
    /\ rateMutexFree
    /\ IF ~api_initialized
         THEN /\ CommitApi(callback(ApiObj, NotInitialized), "handleRequest")
              /\ Land(t, BackTo(t), thr_req[t])
         ELSE LET rl == checkRateLimit(ApiObj, clock)
              IN  IF ~rl.pass
                    THEN /\ CommitApi(callback(rl.obj, RateExceeded), "handleRequest")
                         /\ Land(t, BackTo(t), thr_req[t])
                    ELSE /\ CommitApi(rl.obj, "handleRequest")
                         /\ Land(t, "nested_lock", thr_req[t])
    /\ UNCHANGED g_registered

\* The nested handleRequest from its lock on (api.cpp:147-164).
reNestedLock(t) ==
    /\ ApiFrame /\ ReFrame
    /\ thr_pc[t] = "nested_lock"
    /\ canLockHandlers(t)
    /\ CommitApi(lookupAndInvoke(ApiObj, [method |-> "getApiLevel", params |-> EmptyMap]),
                 "handleRequest")
    /\ Land(t, BackTo(t), thr_req[t])
    /\ UNCHANGED g_registered

\* The outer handleRequest returns: the lock_guard releases handlers_mutex.
reReturn(t) ==
    /\ ApiFrame /\ ReFrame
    /\ thr_pc[t] = "return"
    /\ CommitApi([ApiObj EXCEPT !.handlers_mutex = "unlocked"], "handleRequest")
    /\ Land(t, "idle", thr_req[t])
    /\ UNCHANGED g_registered

InitGateway ==
    /\ thr_pc = [t \in Threads |-> "idle"]
    /\ thr_req = [t \in Threads |-> PlainRequest]
    /\ rate_limit_mutex = ""
    /\ g_admitted = 0
    /\ api_initialized = FALSE
    /\ api_identity = DefaultIdentity
    /\ native_functions = EmptyMap
    /\ handlers = registerDefaultHandlers(EmptyMap)
    /\ handlers_mutex = "unlocked"
    /\ api_calls_count = 0
    /\ clock = 0
    /\ last_rate_reset = 0
    /\ g_responses = <<>>
    /\ g_invoked = <<>>
    /\ g_api_thrown = ""
    /\ g_api_op = "API"
    /\ g_request = [method |-> "", params |-> EmptyMap]
    /\ g_win_start = 0
    /\ g_win_calls = 0
    /\ g_limited = FALSE
    /\ g_registered = EmptyMap

CallRoom == api_calls_count < MaxCalls

RateRoom == g_win_calls < MAX_API_CALLS_PER_SECOND + MaxOverLimit \/ WindowElapsed

NextGateway ==
    \/ \E config \in APIConfigs : apiInitialize(config)
    \/ \E name \in HandlerNames, handler \in CustomHandlers : registerHandler(name, handler)
    \/ \E request \in Requests : CallRoom /\ handleRequest(request)

NextRate ==
    \/ \E config \in RateConfigs : apiInitialize(config)
    \/ \E request \in RateRequests : RateRoom /\ handleRequest(request)
    \/ Tick

\* SpecThreads lets one window boundary pass.
MaxThreadTime == 2

\* SpecReentry explores every request, callback and registration while the
\* counter is below MaxCalls or within MaxOverLimit of the capacity; in between
\* it explores plain requests made one at a time.
Varied == CallRoom \/ api_calls_count >= MAX_API_CALLS_PER_SECOND - MaxOverLimit

AllIdle == \A t \in Threads : thr_pc[t] = "idle"

NextReentry ==
    \/ \E config \in RateConfigs : ~api_initialized /\ apiInitialize(config)
    \/ \E h \in ReentrantHandlers :
          Varied /\ handlers_mutex = "unlocked" /\ registerHandler("custom", h)
    \/ \E t \in Threads, req \in ReentryRequests :
          (Varied \/ (req = PlainRequest /\ AllIdle)) /\ reBegin(t, req)
    \/ \E t \in Threads : reTest(t)
    \/ \E t \in Threads : reLock(t)
    \/ \E t \in Threads : reInvoke(t)
    \/ \E t \in Threads : reNestedRegister(t)
    \/ \E t \in Threads : reNestedRequest(t)
    \/ \E t \in Threads : reNestedLock(t)
    \/ \E t \in Threads : reReturn(t)

\* SpecCallback: the built-in handlers and the three refusals, with completion
\* callbacks that return and completion callbacks that throw.
NextCallback ==
    \/ \E config \in RateConfigs : ~api_initialized /\ apiInitialize(config)
    \/ \E request \in Requests, throws \in BOOLEAN :
          /\ RateRoom
          /\ Varied \/ (request = [method |-> "getApiLevel", params |-> EmptyMap] /\ ~throws)
          /\ handleRequestCb(request, throws)

NextThreads ==
    \/ \E config \in RateConfigs : apiInitialize(config)
    \/ \E t \in Threads : thrBegin(t)
    \/ \E t \in Threads : thrTest(t)
    \/ \E t \in Threads : thrCount(t)
    \/ \E t \in Threads : thrDispatch(t)
    \/ clock < MaxThreadTime /\ Tick

-----------------------------------------------------------------------------
(* Executor::Impl (the package loader)                                      *)
(* The thread that owns the Executor calls loadApk, execute and the          *)
(* destructor one after the other; pause, resume and stop come from other    *)
(* threads at any time.  execute() is modelled in four steps, the others are *)
(* single steps.                                                            *)

\* loadApk is explored while fewer than MaxRegions regions have been mapped.
MaxRegions == 2

\* Addresses: regions are mapped at 1, 2, ...
nullptr == 0

MAP_FAILED == -1

ExecutionStates == {"NotStarted", "Loading", "Running", "Paused", "Stopped", "Error"}

\* static_cast<int>(state)
StateCode(st) ==
    CASE st = "NotStarted" -> 0 [] st = "Loading" -> 1 [] st = "Running" -> 2
      [] st = "Paused" -> 3 [] st = "Stopped" -> 4 [] st = "Error" -> 5

\* What the file system and libzip answer for a path:
\*   exists    std::filesystem::exists: "yes", "no" or "throws"
\*   zip       whether zip_open succeeds
\*   dex       whether zip_stat finds classes.dex, and size, its st.size
\*   readable  whether zip_fopen of classes.dex succeeds
File(path) ==
    CASE path = "missing.apk" ->
           [exists |-> "no", zip |-> FALSE, dex |-> FALSE, size |-> 0, readable |-> FALSE]
      [] path = "denied/app.apk" ->
           [exists |-> "throws", zip |-> FALSE, dex |-> FALSE, size |-> 0, readable |-> FALSE]
      [] path = "notzip.apk" ->
           [exists |-> "yes", zip |-> FALSE, dex |-> FALSE, size |-> 0, readable |-> FALSE]
      [] path = "nodex.apk" ->
           [exists |-> "yes", zip |-> TRUE, dex |-> FALSE, size |-> 0, readable |-> FALSE]
      [] path = "unreadable.apk" ->
           [exists |-> "yes", zip |-> TRUE, dex |-> TRUE, size |-> 2, readable |-> FALSE]
      [] path = "emptydex.apk" ->
           [exists |-> "yes", zip |-> TRUE, dex |-> TRUE, size |-> 0, readable |-> TRUE]
      [] path = "app.apk" ->
           [exists |-> "yes", zip |-> TRUE, dex |-> TRUE, size |-> 1, readable |-> TRUE]

Paths == {"missing.apk", "denied/app.apk", "notzip.apk", "nodex.apk", "unreadable.apk",
          "emptydex.apk", "app.apk"}

EmptyApkInfo == [apk_path |-> "", package_name |-> "", version_name |-> "",
                 version_code |-> 0, min_sdk |-> "", target_sdk |-> "",
                 main_activity |-> "", permissions |-> <<>>]

\* One executor object while a call runs, with the operating system's mappings.
ExObj == [state |-> exec_state, info |-> apk_info, error |-> last_error,
          data |-> dex_data, size |-> dex_size, mapped |-> g_mapped,
          next |-> g_next_region, trace |-> <<>>, events |-> <<>>,
          ok |-> TRUE, result |-> "void"]

updateState(e, new_state) ==
    [e EXCEPT !.state = new_state,
              !.trace = Append(@, new_state),
              !.events = IF exec_callback
                           THEN Append(@, "State changed to: " \o ToString(StateCode(new_state)))
                           ELSE @]

\* mmap(nullptr, length, ..., MAP_PRIVATE | MAP_ANONYMOUS, -1, 0): fails for a
\* length of 0 (EINVAL) and whenever the system refuses (enomem).
mmap(e, length, enomem) ==
    IF length = 0 \/ enomem THEN [e EXCEPT !.data = MAP_FAILED]
    ELSE [e EXCEPT !.data = e.next, !.next = @ + 1,
                   !.mapped = @ \cup {[id |-> e.next, size |-> length, copied |-> FALSE]}]

\* zip_fread(dex_file, dex_data, st.size)
zip_fread(e) ==
    [e EXCEPT !.mapped = {IF r.id = e.data THEN [r EXCEPT !.copied = TRUE] ELSE r : r \in @}]

extractDex(e, apk_path, enomem) ==
    LET f == File(apk_path)
    IN  IF ~f.zip THEN [e EXCEPT !.error = "Failed to open APK file", !.ok = FALSE]
        ELSE IF f.dex
          THEN LET e1 == mmap([e EXCEPT !.size = f.size], f.size, enomem)
               IN  IF e1.data = MAP_FAILED
                     THEN [e1 EXCEPT !.error = "Failed to allocate memory for DEX",
                                     !.ok = FALSE]
                   ELSE IF f.readable THEN [zip_fread(e1) EXCEPT !.ok = TRUE]
                   ELSE [e1 EXCEPT !.ok = TRUE]
          ELSE [e EXCEPT !.ok = TRUE]

PopulateInfo(e, path) ==
    [e EXCEPT !.info = [apk_path |-> path, package_name |-> "com.example.test",
                        version_name |-> "1.0.0", version_code |-> 1,
                        min_sdk |-> "21", target_sdk |-> "33",
                        main_activity |-> "com.example.test.MainActivity",
                        permissions |-> e.info.permissions]]

\* A loadApk whose extractDex failure exit returns without updateState(Error).
implLoadApk_noErrorState(e, path, enomem) ==
    LET e0 == updateState(e, "Loading")
        f == File(path)
    IN  IF f.exists = "throws"
          THEN [updateState([e0 EXCEPT !.error = "filesystem error"], "Error")
                   EXCEPT !.result = "RuntimeError"]
        ELSE IF f.exists = "no"
          THEN [updateState([e0 EXCEPT !.error = "APK file not found"], "Error")
                   EXCEPT !.result = "InvalidApk"]
        ELSE LET e1 == extractDex(PopulateInfo(e0, path), path, enomem)
             IN  IF ~e1.ok THEN [e1 EXCEPT !.result = "RuntimeError"]
                 ELSE [updateState(e1, "Stopped") EXCEPT !.result = "Success"]

implLoadApk(e, path, enomem) ==
    LET e0 == updateState(e, "Loading")
        f == File(path)
    IN  IF f.exists = "throws"
          THEN [updateState([e0 EXCEPT !.error = "filesystem error"], "Error")
                   EXCEPT !.result = "RuntimeError"]
        ELSE IF f.exists = "no"
          THEN [updateState([e0 EXCEPT !.error = "APK file not found"], "Error")
                   EXCEPT !.result = "InvalidApk"]
        ELSE LET e1 == extractDex(PopulateInfo(e0, path), path, enomem)
             IN  IF ~e1.ok THEN [updateState(e1, "Error") EXCEPT !.result = "RuntimeError"]
                 ELSE [updateState(e1, "Stopped") EXCEPT !.result = "Success"]

CommitEx(e, op) ==
    /\ exec_state' = e.state
    /\ apk_info' = e.info
    /\ last_error' = e.error
    /\ dex_data' = e.data
    /\ dex_size' = e.size
    /\ g_mapped' = e.mapped
    /\ g_next_region' = e.next
    /\ g_exec_trace' = e.trace
    /\ g_exec_events' = e.events
    /\ g_exec_result' = e.result
    /\ g_exec_op' = op

RegionRoom == g_next_region <= MaxRegions

loadApk(path, enomem) ==
    /\ ExecFrame
    /\ g_owner_last' = <<"loadApk", implLoadApk(ExObj, path, enomem).result>>
    /\ UNCHANGED <<pause_pc, resume_pc>>
    /\ exec_alive /\ exec_pc = "idle"
    /\ RegionRoom
    /\ CommitEx(implLoadApk(ExObj, path, enomem), "loadApk")
    /\ g_path' = path
    /\ UNCHANGED <<exec_alive, is_running, loaded_libs, exec_callback, exec_pc,
                   g_munmaps, g_dlclosed>>

\* execute(): updateState(ExecutionState::Running)
executeEnter ==
    /\ ExecFrame
    /\ g_owner_last' = <<"execute", "">>
    /\ UNCHANGED <<pause_pc, resume_pc>>
    /\ exec_alive /\ exec_pc = "idle"
    /\ CommitEx(updateState(ExObj, "Running"), "execute")
    /\ exec_pc' = "set_running"
    /\ UNCHANGED <<exec_alive, is_running, loaded_libs, exec_callback, g_munmaps,
                   g_dlclosed, g_path>>

\* An entry that leaves the flag as it finds it.
executeSetRunning_keepsFlag ==
    /\ ExecFrame
    /\ UNCHANGED <<pause_pc, resume_pc, g_owner_last>>
    /\ exec_alive /\ exec_pc = "set_running"
    /\ exec_pc' = "loop"
    /\ UNCHANGED <<exec_alive, exec_state, apk_info, last_error, dex_data, dex_size,
                   loaded_libs, exec_callback, g_mapped, g_next_region, g_munmaps,
                   g_dlclosed, g_exec_trace, g_exec_events, g_exec_result, g_exec_op,
                   g_path, is_running>>

\* execute(): is_running = true
executeSetRunning ==
    /\ ExecFrame
    /\ UNCHANGED <<pause_pc, resume_pc, g_owner_last>>
    /\ exec_alive /\ exec_pc = "set_running"
    /\ is_running' = TRUE
    /\ exec_pc' = "loop"
    /\ UNCHANGED <<exec_alive, exec_state, apk_info, last_error, dex_data, dex_size,
                   loaded_libs, exec_callback, g_mapped, g_next_region, g_munmaps,
                   g_dlclosed, g_exec_trace, g_exec_events, g_exec_result, g_exec_op,
                   g_path>>

\* execute(): one test of while (is_running); a true test sleeps and tests again.
executeLoop ==
    /\ ExecFrame
    /\ UNCHANGED <<pause_pc, resume_pc, g_owner_last>>
    /\ exec_alive /\ exec_pc = "loop"
    /\ exec_pc' = IF is_running THEN "loop" ELSE "exit"
    /\ UNCHANGED <<exec_alive, exec_state, apk_info, last_error, is_running, dex_data,
                   dex_size, loaded_libs, exec_callback, g_mapped, g_next_region,
                   g_munmaps, g_dlclosed, g_exec_trace, g_exec_events, g_exec_result,
                   g_exec_op, g_path>>

\* execute(): updateState(ExecutionState::Stopped); return Result::Success
executeExit ==
    /\ ExecFrame
    /\ g_owner_last' = <<"execute", "Success">>
    /\ UNCHANGED <<pause_pc, resume_pc>>
    /\ exec_alive /\ exec_pc = "exit"
    /\ CommitEx([updateState(ExObj, "Stopped") EXCEPT !.result = "Success"], "execute")
    /\ exec_pc' = "idle"
    /\ UNCHANGED <<exec_alive, is_running, loaded_libs, exec_callback, g_munmaps,
                   g_dlclosed, g_path>>

\* pause(), first half: the test state == ExecutionState::Running.
pauseCheck ==
    /\ ExecFrame
    /\ exec_alive /\ pause_pc = "idle"
    /\ pause_pc' = IF exec_state = "Running" THEN "write" ELSE "idle"
    /\ CommitEx(ExObj, "pause")
    /\ UNCHANGED <<exec_alive, is_running, loaded_libs, exec_callback, exec_pc,
                   g_munmaps, g_dlclosed, g_path, resume_pc, g_owner_last>>

\* pause(), second half: updateState(ExecutionState::Paused).
pauseWrite ==
    /\ ExecFrame
    /\ exec_alive /\ pause_pc = "write"
    /\ pause_pc' = "idle"
    /\ CommitEx(updateState(ExObj, "Paused"), "pause")
    /\ UNCHANGED <<exec_alive, is_running, loaded_libs, exec_callback, exec_pc,
                   g_munmaps, g_dlclosed, g_path, resume_pc, g_owner_last>>

\* resume(), first half: the test state == ExecutionState::Paused.
resumeCheck ==
    /\ ExecFrame
    /\ exec_alive /\ resume_pc = "idle"
    /\ resume_pc' = IF exec_state = "Paused" THEN "write" ELSE "idle"
    /\ CommitEx(ExObj, "resume")
    /\ UNCHANGED <<exec_alive, is_running, loaded_libs, exec_callback, exec_pc,
                   g_munmaps, g_dlclosed, g_path, pause_pc, g_owner_last>>

\* resume(), second half: updateState(ExecutionState::Running).
resumeWrite ==
    /\ ExecFrame
    /\ exec_alive /\ resume_pc = "write"
    /\ resume_pc' = "idle"
    /\ CommitEx(updateState(ExObj, "Running"), "resume")
    /\ UNCHANGED <<exec_alive, is_running, loaded_libs, exec_callback, exec_pc,
                   g_munmaps, g_dlclosed, g_path, pause_pc, g_owner_last>>

\* A pause without its guard.
pause_unguarded ==
    /\ ExecFrame
    /\ UNCHANGED <<pause_pc, resume_pc, g_owner_last>>
    /\ exec_alive
    /\ CommitEx(updateState(ExObj, "Paused"), "pause")
    /\ UNCHANGED <<exec_alive, is_running, loaded_libs, exec_callback, exec_pc,
                   g_munmaps, g_dlclosed, g_path>>

\* pause() as one step, for calls that nothing interleaves with.
pause ==
    /\ ExecFrame
    /\ UNCHANGED <<pause_pc, resume_pc, g_owner_last>>
    /\ exec_alive
    /\ CommitEx(IF exec_state = "Running" THEN updateState(ExObj, "Paused") ELSE ExObj,
                "pause")
    /\ UNCHANGED <<exec_alive, is_running, loaded_libs, exec_callback, exec_pc,
                   g_munmaps, g_dlclosed, g_path>>

resume ==
    /\ ExecFrame
    /\ UNCHANGED <<pause_pc, resume_pc, g_owner_last>>
    /\ exec_alive
    /\ CommitEx(IF exec_state = "Paused" THEN updateState(ExObj, "Running") ELSE ExObj,
                "resume")
    /\ UNCHANGED <<exec_alive, is_running, loaded_libs, exec_callback, exec_pc,
                   g_munmaps, g_dlclosed, g_path>>

\* A stop that flips the flag.
stop_toggle ==
    /\ ExecFrame
    /\ UNCHANGED <<pause_pc, resume_pc, g_owner_last>>
    /\ exec_alive
    /\ is_running' = ~is_running
    /\ CommitEx(ExObj, "stop")
    /\ UNCHANGED <<exec_alive, loaded_libs, exec_callback, exec_pc, g_munmaps,
                   g_dlclosed, g_path>>

stop ==
    /\ ExecFrame
    /\ UNCHANGED <<pause_pc, resume_pc, g_owner_last>>
    /\ exec_alive
    /\ is_running' = FALSE
    /\ CommitEx(ExObj, "stop")
    /\ UNCHANGED <<exec_alive, loaded_libs, exec_callback, exec_pc, g_munmaps,
                   g_dlclosed, g_path>>

execSetEventCallback(cb) ==
    /\ ExecFrame
    /\ UNCHANGED <<pause_pc, resume_pc, g_owner_last>>
    /\ exec_alive /\ exec_pc = "idle"
    /\ exec_callback' = cb
    /\ CommitEx(ExObj, "setEventCallback")
    /\ UNCHANGED <<exec_alive, is_running, loaded_libs, exec_pc, g_munmaps,
                   g_dlclosed, g_path>>

\* munmap(addr, length): unmaps the region mapped at addr; any other address
\* (MAP_FAILED among them) fails with EINVAL and unmaps nothing.
munmap(mapped, addr) == {r \in mapped : r.id # addr}

\* ~Impl()
destroyExecutor ==
    /\ ExecFrame
    /\ UNCHANGED <<pause_pc, resume_pc, g_owner_last>>
    /\ exec_alive /\ exec_pc = "idle"
    /\ exec_alive' = FALSE
    /\ IF dex_data # nullptr
         THEN /\ g_munmaps' = Append(g_munmaps, <<dex_data, dex_size>>)
              /\ g_mapped' = munmap(g_mapped, dex_data)
         ELSE UNCHANGED <<g_munmaps, g_mapped>>
    /\ g_dlclosed' = g_dlclosed \o loaded_libs
    /\ g_exec_op' = "~Executor"
    /\ g_exec_trace' = <<>>
    /\ g_exec_events' = <<>>
    /\ g_exec_result' = "void"
    /\ UNCHANGED <<exec_state, apk_info, last_error, is_running, dex_data, dex_size,
                   loaded_libs, exec_callback, exec_pc, g_next_region, g_path>>

InitLoader ==
    /\ exec_alive = TRUE
    /\ exec_state = "NotStarted"
    /\ apk_info = EmptyApkInfo
    /\ last_error = ""
    /\ is_running = FALSE
    /\ dex_data = nullptr
    /\ dex_size = 0
    /\ loaded_libs = <<>>
    /\ exec_callback = FALSE
    /\ exec_pc = "idle"
    /\ g_mapped = {}
    /\ g_next_region = 1
    /\ g_munmaps = <<>>
    /\ g_dlclosed = <<>>
    /\ g_exec_trace = <<>>
    /\ g_exec_events = <<>>
    /\ g_exec_result = "void"
    /\ g_exec_op = "Executor"
    /\ g_path = ""
    /\ pause_pc = "idle"
    /\ resume_pc = "idle"
    /\ g_owner_last = <<"Executor", "">>

NextLoader ==
    \/ \E path \in Paths, enomem \in BOOLEAN : loadApk(path, enomem)
    \/ executeEnter
    \/ executeSetRunning
    \/ executeLoop
    \/ executeExit
    \/ pause
    \/ resume
    \/ stop
    \/ \E cb \in BOOLEAN : execSetEventCallback(cb)
    \/ destroyExecutor

\* SpecRace: execute() on the owner's thread against pause(), resume() and
\* stop() on other threads, the test and the write of pause() and resume()
\* being separate steps.
NextRace ==
    \/ executeEnter
    \/ executeSetRunning
    \/ executeLoop
    \/ executeExit
    \/ pauseCheck
    \/ pauseWrite
    \/ resumeCheck
    \/ resumeWrite
    \/ stop
    \/ \E cb \in BOOLEAN : execSetEventCallback(cb)

-----------------------------------------------------------------------------
(* Renderer::Impl (src/src/graphics/renderer.cpp)                           *)
(*                                                                         *)
(* Two threads: the render thread, started by the constructor, runs         *)
(* renderLoop; the thread that owns the Renderer calls initialize,          *)
(* onSurfaceCreated, onSurfaceChanged, submitCommand and the destructor.    *)
(* A step ends where a thread takes or releases a mutex, waits or notifies. *)
(* The render thread reads command_queue.empty() without queue_mutex; the   *)
(* value it reads is the one before or the one after a concurrent           *)
(* push_back, which the interleaving of the test with submitPush covers.    *)
(* OpenGL calls are external; of the drawing only the order of the commands *)
(* is kept.                                                                 *)

CommandTypes == {"DrawRect", "DrawTexture", "Clear"}

\* RenderConfig::design_width{1080}
design_width == 1080

\* The values of RenderConfig::design_width initialize is called with.
DesignWidths == {design_width, 720}

\* The surface sizes onSurfaceChanged is called with.
SurfaceSizes == {<<1080, 1920>>}

\* Exploration bound: the number of submitCommand calls.
MaxCommands == 2

RndFrame == UNCHANGED <<act_vars, rt_vars, api_vars, exec_vars>>

\* initialize(cfg): config = cfg, then initGLContext under state_mutex; gl_ok
\* says whether the shaders compile and the program links.
rndInitialize(cfg, gl_ok) ==
    /\ RndFrame
    /\ caller_pc = "idle"
    /\ state_mutex = "unlocked"
    /\ rnd_config' = cfg
    /\ IF rnd_initialized
         THEN UNCHANGED rnd_initialized /\ g_rnd_thrown' = ""
         ELSE IF gl_ok
                THEN rnd_initialized' = TRUE /\ g_rnd_thrown' = ""
                ELSE UNCHANGED rnd_initialized /\ g_rnd_thrown' = "runtime_error"
    /\ UNCHANGED <<surface_created, surface_width, surface_height, scale_factor,
                   state_mutex, render_running, render_mutex, cv_waiting, cv_notified,
                   command_queue, queue_mutex, current_commands, render_pc, caller_pc,
                   caller_cmd, g_submitted, g_executed>>

onSurfaceCreated ==
    /\ RndFrame
    /\ caller_pc = "idle"
    /\ state_mutex = "unlocked"
    /\ surface_created' = TRUE
    /\ g_rnd_thrown' = ""
    /\ UNCHANGED <<rnd_initialized, surface_width, surface_height, scale_factor,
                   state_mutex, render_running, render_mutex, cv_waiting, cv_notified,
                   rnd_config, command_queue, queue_mutex, current_commands, render_pc,
                   caller_pc, caller_cmd, g_submitted, g_executed>>

onSurfaceChanged(width, height) ==
    /\ RndFrame
    /\ caller_pc = "idle"
    /\ state_mutex = "unlocked"
    /\ surface_width' = width
    /\ surface_height' = height
    /\ scale_factor' = <<width, rnd_config>>
    /\ g_rnd_thrown' = ""
    /\ UNCHANGED <<rnd_initialized, surface_created, state_mutex, render_running,
                   render_mutex, cv_waiting, cv_notified, rnd_config, command_queue,
                   queue_mutex, current_commands, render_pc, caller_pc, caller_cmd,
                   g_submitted, g_executed>>

\* render_thread.cv.notify_one(): wakes the render thread if it is blocked in
\* the condition variable, and does nothing otherwise.
notify_one == IF cv_waiting THEN TRUE ELSE cv_notified

\* submitCommand, first step: lock_guard lock(queue_mutex).
submitLock(cmd) ==
    /\ RndFrame
    /\ caller_pc = "idle"
    /\ queue_mutex = "unlocked"
    /\ queue_mutex' = "caller"
    /\ caller_cmd' = cmd
    /\ caller_pc' = "push"
    /\ g_rnd_thrown' = ""
    /\ UNCHANGED <<rnd_initialized, surface_created, surface_width, surface_height,
                   scale_factor, state_mutex, render_running, render_mutex, cv_waiting,
                   cv_notified, rnd_config, command_queue, current_commands, render_pc,
                   g_submitted, g_executed>>

\* submitCommand, second step: push_back and the end of the lock's scope.
submitPush ==
    /\ RndFrame
    /\ caller_pc = "push"
    /\ command_queue' = Append(command_queue, caller_cmd)
    /\ queue_mutex' = "unlocked"
    /\ caller_pc' = "notify"
    /\ g_submitted' = Append(g_submitted,
                             [cmd |-> caller_cmd,
                              ready |-> surface_created /\ rnd_initialized])
    /\ UNCHANGED <<rnd_initialized, surface_created, surface_width, surface_height,
                   scale_factor, state_mutex, render_running, render_mutex, cv_waiting,
                   cv_notified, rnd_config, current_commands, render_pc, caller_cmd,
                   g_executed, g_rnd_thrown>>

\* submitCommand, last step: render_thread.cv.notify_one().
submitNotify ==
    /\ RndFrame
    /\ caller_pc = "notify"
    /\ cv_notified' = notify_one
    /\ caller_pc' = "idle"
    /\ UNCHANGED <<rnd_initialized, surface_created, surface_width, surface_height,
                   scale_factor, state_mutex, render_running, render_mutex, cv_waiting,
                   rnd_config, command_queue, queue_mutex, current_commands, render_pc,
                   caller_cmd, g_submitted, g_executed, g_rnd_thrown>>

\* The predicate of the wait in renderLoop.
wakeCondition == ~render_running \/ command_queue # <<>>

\* What the render thread does with render_thread.mutex held once it has
\* evaluated the predicate: with the predicate true it leaves the wait, tests
\* running and releases the mutex; with the predicate false it goes on to
\* block, still holding the mutex.
afterTest ==
    IF wakeCondition
      THEN /\ render_mutex' = "unlocked"
           /\ render_pc' = IF ~render_running THEN "exited" ELSE "frame"
      ELSE /\ render_mutex' = "render"
           /\ render_pc' = "block"

\* renderLoop: unique_lock lock(render_thread.mutex) and the first evaluation
\* of the predicate.
renderTest ==
    /\ RndFrame
    /\ render_pc = "test"
    /\ render_mutex = "unlocked"
    /\ afterTest
    /\ UNCHANGED <<rnd_initialized, surface_created, surface_width, surface_height,
                   scale_factor, state_mutex, render_running, cv_waiting, cv_notified,
                   rnd_config, command_queue, queue_mutex, current_commands, caller_pc,
                   caller_cmd, g_submitted, g_executed, g_rnd_thrown>>

\* renderLoop: the predicate was false; cv.wait releases the mutex and blocks.
renderBlock ==
    /\ RndFrame
    /\ render_pc = "block"
    /\ render_mutex' = "unlocked"
    /\ cv_waiting' = TRUE
    /\ cv_notified' = FALSE
    /\ render_pc' = "waiting"
    /\ UNCHANGED <<rnd_initialized, surface_created, surface_width, surface_height,
                   scale_factor, state_mutex, render_running, rnd_config, command_queue,
                   queue_mutex, current_commands, caller_pc, caller_cmd, g_submitted,
                   g_executed, g_rnd_thrown>>

\* renderLoop: the woken thread takes the mutex again and evaluates the
\* predicate again.
renderWake ==
    /\ RndFrame
    /\ render_pc = "waiting"
    /\ cv_notified
    /\ render_mutex = "unlocked"
    /\ cv_waiting' = FALSE
    /\ cv_notified' = FALSE
    /\ afterTest
    /\ UNCHANGED <<rnd_initialized, surface_created, surface_width, surface_height,
                   scale_factor, state_mutex, render_running, rnd_config, command_queue,
                   queue_mutex, current_commands, caller_pc, caller_cmd, g_submitted,
                   g_executed, g_rnd_thrown>>

\* A condition variable may wake a waiter without a notification; it need not.
spuriousWakeup ==
    /\ RndFrame
    /\ render_pc = "waiting"
    /\ ~cv_notified
    /\ cv_notified' = TRUE
    /\ UNCHANGED <<rnd_initialized, surface_created, surface_width, surface_height,
                   scale_factor, state_mutex, render_running, render_mutex, cv_waiting,
                   rnd_config, command_queue, queue_mutex, current_commands, render_pc,
                   caller_pc, caller_cmd, g_submitted, g_executed, g_rnd_thrown>>

\* renderFrame: lock_guard lock(state.state_mutex) and the test of
\* surface_created and initialized.
renderFrameEnter ==
    /\ RndFrame
    /\ render_pc = "frame"
    /\ state_mutex = "unlocked"
    /\ IF ~surface_created \/ ~rnd_initialized
         THEN /\ render_pc' = "sleep"
              /\ UNCHANGED state_mutex
         ELSE /\ render_pc' = "swap"
              /\ state_mutex' = "render"
    /\ UNCHANGED <<rnd_initialized, surface_created, surface_width, surface_height,
                   scale_factor, render_running, render_mutex, cv_waiting, cv_notified,
                   rnd_config, command_queue, queue_mutex, current_commands, caller_pc,
                   caller_cmd, g_submitted, g_executed, g_rnd_thrown>>

\* renderFrame: current_commands.swap(command_queue) under queue_mutex.
renderFrameSwap ==
    /\ RndFrame
    /\ render_pc = "swap"
    /\ queue_mutex = "unlocked"
    /\ current_commands' = command_queue
    /\ command_queue' = <<>>
    /\ render_pc' = "draw"
    /\ UNCHANGED <<rnd_initialized, surface_created, surface_width, surface_height,
                   scale_factor, state_mutex, render_running, render_mutex, cv_waiting,
                   cv_notified, rnd_config, queue_mutex, caller_pc, caller_cmd,
                   g_submitted, g_executed, g_rnd_thrown>>

\* renderFrame: the loop over current_commands, glFinish, and the end of
\* the scope of the state_mutex lock.
renderFrameDraw ==
    /\ RndFrame
    /\ render_pc = "draw"
    /\ g_executed' = g_executed \o current_commands
    /\ current_commands' = <<>>
    /\ state_mutex' = "unlocked"
    /\ render_pc' = "sleep"
    /\ UNCHANGED <<rnd_initialized, surface_created, surface_width, surface_height,
                   scale_factor, render_running, render_mutex, cv_waiting, cv_notified,
                   rnd_config, command_queue, queue_mutex, caller_pc, caller_cmd,
                   g_submitted, g_rnd_thrown>>

\* renderLoop: sleep_for(16 ms), then the next iteration.
renderSleep ==
    /\ RndFrame
    /\ render_pc = "sleep"
    /\ render_pc' = "test"
    /\ UNCHANGED <<rnd_initialized, surface_created, surface_width, surface_height,
                   scale_factor, state_mutex, render_running, render_mutex, cv_waiting,
                   cv_notified, rnd_config, command_queue, queue_mutex, current_commands,
                   caller_pc, caller_cmd, g_submitted, g_executed, g_rnd_thrown>>

\* ~Impl, first step: running = false under render_thread.mutex.
destroyStop ==
    /\ RndFrame
    /\ caller_pc = "idle"
    /\ render_mutex = "unlocked"
    /\ render_running' = FALSE
    /\ caller_pc' = "d_notify"
    /\ g_rnd_thrown' = ""
    /\ UNCHANGED <<rnd_initialized, surface_created, surface_width, surface_height,
                   scale_factor, state_mutex, render_mutex, cv_waiting, cv_notified,
                   rnd_config, command_queue, queue_mutex, current_commands, render_pc,
                   caller_cmd, g_submitted, g_executed>>

\* ~Impl, second step: render_thread.cv.notify_one().
destroyNotify ==
    /\ RndFrame
    /\ caller_pc = "d_notify"
    /\ cv_notified' = notify_one
    /\ caller_pc' = "d_join"
    /\ UNCHANGED <<rnd_initialized, surface_created, surface_width, surface_height,
                   scale_factor, state_mutex, render_running, render_mutex, cv_waiting,
                   rnd_config, command_queue, queue_mutex, current_commands, render_pc,
                   caller_cmd, g_submitted, g_executed, g_rnd_thrown>>

\* ~Impl, last step: join, which returns once renderLoop has returned, and
\* cleanup().
destroyJoin ==
    /\ RndFrame
    /\ caller_pc = "d_join"
    /\ render_pc = "exited"
    /\ state_mutex = "unlocked"
    /\ rnd_initialized' = FALSE
    /\ caller_pc' = "destroyed"
    /\ UNCHANGED <<surface_created, surface_width, surface_height, scale_factor,
                   state_mutex, render_running, render_mutex, cv_waiting, cv_notified,
                   rnd_config, command_queue, queue_mutex, current_commands, render_pc,
                   caller_cmd, g_submitted, g_executed, g_rnd_thrown>>

\* The state after Renderer(): running set and the render thread started.
InitRenderer ==
    /\ rnd_initialized = FALSE
    /\ surface_created = FALSE
    /\ surface_width = 0
    /\ surface_height = 0
    /\ scale_factor = <<1, 1>>
    /\ state_mutex = "unlocked"
    /\ render_running = TRUE
    /\ render_mutex = "unlocked"
    /\ cv_waiting = FALSE
    /\ cv_notified = FALSE
    /\ rnd_config = design_width
    /\ command_queue = <<>>
    /\ queue_mutex = "unlocked"
    /\ current_commands = <<>>
    /\ render_pc = "test"
    /\ caller_pc = "idle"
    /\ caller_cmd = "Clear"
    /\ g_submitted = <<>>
    /\ g_executed = <<>>
    /\ g_rnd_thrown = ""

\* The steps of the render thread.
RenderThread ==
    \/ renderTest
    \/ renderBlock
    \/ renderWake
    \/ renderFrameEnter
    \/ renderFrameSwap
    \/ renderFrameDraw
    \/ renderSleep

\* The steps by which the owner's thread finishes a call it has begun.
CallerInCall ==
    \/ submitPush
    \/ submitNotify
    \/ destroyNotify
    \/ destroyJoin

\* Exploration window: the geometry is varied before the first command only.
NoCommandYet == g_submitted = <<>>

NextRender ==
    \/ \E cfg \in DesignWidths, gl_ok \in BOOLEAN :
          (NoCommandYet \/ cfg = rnd_config) /\ rndInitialize(cfg, gl_ok)
    \/ onSurfaceCreated
    \/ \E size \in SurfaceSizes :
          NoCommandYet /\ onSurfaceChanged(size[1], size[2])
    \/ \E cmd \in CommandTypes : Len(g_submitted) < MaxCommands /\ submitLock(cmd)
    \/ submitPush
    \/ submitNotify
    \/ renderTest
    \/ renderBlock
    \/ renderWake
    \/ spuriousWakeup
    \/ renderFrameEnter
    \/ renderFrameSwap
    \/ renderFrameDraw
    \/ renderSleep
    \/ destroyStop
    \/ destroyNotify
    \/ destroyJoin

-----------------------------------------------------------------------------
Init == InitActivity /\ InitRuntime /\ InitGateway /\ InitLoader /\ InitRenderer

SpecActivity == Init /\ [][NextActivity]_vars

SpecSnapshot == Init /\ [][NextSnapshot]_vars

SpecFaults == Init /\ [][NextFaults]_vars

SpecRuntime == Init /\ [][NextRuntime]_vars

SpecGateway == Init /\ [][NextGateway]_vars

SpecRate == Init /\ [][NextRate]_vars

SpecThreads == Init /\ [][NextThreads]_vars

SpecReentry == Init /\ [][NextReentry]_vars

SpecCallback == Init /\ [][NextCallback]_vars

SpecLoader == Init /\ [][NextLoader]_vars

\* The render thread keeps being scheduled, and the owner's thread finishes the
\* call it is in; nothing obliges the owner to make another call, nor the
\* condition variable to wake a waiter that was not notified.
SpecRender ==
    Init /\ [][NextRender]_vars /\ WF_vars(RenderThread) /\ WF_vars(CallerInCall)

\* The thread inside execute() keeps being scheduled.
SpecRace ==
    Init /\ [][NextRace]_vars /\ WF_vars(executeLoop) /\ WF_vars(executeExit)

-----------------------------------------------------------------------------
(* Properties of Activity::Impl (SpecActivity)                              *)

AllowedEdges ==
    {<<"Created", "Started">>, <<"Stopped", "Started">>, <<"Started", "Resumed">>,
     <<"Paused", "Resumed">>, <<"Resumed", "Paused">>, <<"Paused", "Stopped">>}
    \cup {<<x, "Destroyed">> : x \in LifecycleStates \ {"Destroyed"}}

EdgesAllowed(trace) ==
    \A i \in 1 .. (Len(trace) - 1) :
        trace[i] # trace[i + 1] => <<trace[i], trace[i + 1]>> \in AllowedEdges

\* C1: every call starts from the current lifecycle state and ends in the last
\* value it wrote, and each change of the lifecycle state on the way (the writes
\* inside finish included) is one of Created->Started, Stopped->Started,
\* Started->Resumed, Paused->Resumed, Resumed->Paused, Paused->Stopped or
\* X->Destroyed with X # Destroyed; so Destroyed is never left.
C1_LifecycleEdges ==
    [][ /\ g_act_trace'[1] = act_state
        /\ Last(g_act_trace') = act_state'
        /\ EdgesAllowed(g_act_trace')
        /\ (act_state # act_state' => <<act_state, act_state'>> \in AllowedEdges) ]_vars

\* A restart: the activity went round to Stopped and was started again.
C1_Witness == g_act_trace = <<"Stopped", "Started">>

\* C2: whenever finish() has returned, the activity is Destroyed, whatever the
\* state it was called in and whatever was called before (finish() included).
C2_FinishDestroys == g_act_op = "finish" => act_state = "Destroyed"

\* finish() called in Resumed: pause, stop and destroy all took effect.
C2_Witness ==
    /\ g_act_op = "finish"
    /\ g_act_trace = <<"Resumed", "Paused", "Stopped", "Destroyed">>

-----------------------------------------------------------------------------
(* Properties of Runtime::Impl (SpecRuntime)                                *)

\* C5: a startActivity call made while RuntimeState is not Ready returns
\* RuntimeError and leaves RuntimeState, the class table and the native-method
\* table as they were.
C5_StartActivityNotReady ==
    [][ (g_rt_op' = "startActivity" /\ rt_state # "Ready")
          => /\ g_rt_result' = "RuntimeError"
             /\ rt_state' = rt_state
             /\ loaded_classes' = loaded_classes
             /\ native_methods' = native_methods ]_vars

\* startActivity was refused in Error with a partly filled class table.
C5_Witness ==
    /\ g_rt_op = "startActivity"
    /\ g_rt_result = "RuntimeError"
    /\ rt_state = "Error"
    /\ loaded_classes # <<>>

-----------------------------------------------------------------------------
(* Properties of API::Impl (SpecRate, SpecGateway)                          *)

RateLimited == g_responses = <<Response(FALSE, "", "Rate limit exceeded")>>

RatePassed == \A i \in DOMAIN g_responses : g_responses[i].error # "Rate limit exceeded"

\* After a call on an initialized gateway: the calls numbered 1 to 1000 of a
\* window passed the rate check, the one numbered 1001 was answered "Rate limit
\* exceeded".
C3_WindowCount ==
    (g_api_op = "handleRequest" /\ api_initialized)
      => /\ (g_win_calls <= MAX_API_CALLS_PER_SECOND => RatePassed)
         /\ (g_win_calls = MAX_API_CALLS_PER_SECOND + 1 => RateLimited)

\* A call made on an initialized gateway a second or more after the window's
\* start passes the rate check.
C3_NewWindow ==
    \A request \in RateRequests :
        (api_initialized /\ WindowElapsed /\ handleRequest(request)) => RatePassed'

\* C3: on an initialized gateway the first 1000 handleRequest calls of a rate
\* window all pass the rate check, the 1001st call of the same window is
\* answered with the failure "Rate limit exceeded", and the first call made once
\* at least one second has elapsed since the window's start passes again.
C3_RateLimiter == [](C3_WindowCount) /\ [][C3_NewWindow]_vars

\* A window was exhausted and a call refused, and the first call of the next
\* window has passed.
C3_Witness ==
    /\ g_api_op = "handleRequest"
    /\ g_limited
    /\ g_win_start > 0
    /\ g_win_calls = 1
    /\ RatePassed

\* C4: after a handleRequest call on a gateway that is not initialized, whatever
\* the method and whatever was called before, the callback has received exactly
\* the failure "API not initialized" and no handler was invoked.
C4_NotInitialized ==
    (g_api_op = "handleRequest" /\ ~api_initialized)
      => /\ g_responses = <<Response(FALSE, "", "API not initialized")>>
         /\ g_invoked = <<>>

\* A request for a method with a caller-registered handler was refused before
\* initialize.
C4_Witness ==
    /\ g_api_op = "handleRequest"
    /\ ~api_initialized
    /\ g_request.method = "custom"
    /\ "custom" \in DOMAIN handlers
    /\ g_responses = <<Response(FALSE, "", "API not initialized")>>

-----------------------------------------------------------------------------
(* Properties of Executor::Impl (SpecLoader)                                *)

\* The regions the loads have acquired so far.
Acquired == 1 .. (g_next_region - 1)

\* How many munmap calls named region r.
Releases(r) == Cardinality({i \in DOMAIN g_munmaps : g_munmaps[i][1] = r})

\* How many dlclose calls named handle h.
Closes(h) == Cardinality({i \in DOMAIN g_dlclosed : g_dlclosed[i] = h})

\* C6: no region is ever released twice and no handle closed twice; and once
\* the Loader is destroyed, every region a load acquired has been released
\* exactly once (none is still mapped) and every held native-library handle
\* closed exactly once.
C6_ReleasedExactlyOnce ==
    /\ \A r \in Acquired : Releases(r) <= 1
    /\ \A i \in DOMAIN g_dlclosed : Closes(g_dlclosed[i]) <= 1
    /\ ~exec_alive => /\ \A r \in Acquired : Releases(r) = 1
                      /\ g_mapped = {}
                      /\ \A i \in DOMAIN loaded_libs : Closes(loaded_libs[i]) = 1

\* C7: when loadApk has returned, the first value it wrote to ExecutionState
\* was Loading, and the state it left is Stopped exactly when it returned
\* Success and Error exactly when it returned a failure.
C7_LoadApkStates ==
    g_exec_op = "loadApk"
      => /\ g_exec_trace # <<>>
         /\ g_exec_trace[1] = "Loading"
         /\ Last(g_exec_trace) = exec_state
         /\ (g_exec_result = "Success" <=> exec_state = "Stopped")
         /\ (g_exec_result # "Success" <=> exec_state = "Error")

\* A load failed inside extractDex: Loading, then Error, with RuntimeError.
C7_Witness ==
    /\ g_exec_op = "loadApk"
    /\ g_path = "notzip.apk"
    /\ g_exec_result = "RuntimeError"
    /\ g_exec_trace = <<"Loading", "Error">>

\* C8: loadApk returns InvalidApk when the path names no existing file, and
\* RuntimeError when the archive cannot be opened, holds no classes.dex entry,
\* or its classes.dex entry cannot be copied into the region.
C8_LoadErrors ==
    g_exec_op = "loadApk"
      => LET f == File(g_path)
         IN  /\ f.exists = "no" => g_exec_result = "InvalidApk"
             /\ (f.exists = "yes" /\ (~f.zip \/ ~f.dex \/ ~f.readable))
                  => g_exec_result = "RuntimeError"

InfoPopulated ==
    /\ apk_info.apk_path = g_path
    /\ apk_info.package_name # ""
    /\ apk_info.version_name # ""
    /\ apk_info.version_code # 0
    /\ apk_info.min_sdk # ""
    /\ apk_info.target_sdk # ""
    /\ apk_info.main_activity # ""

\* C9: when loadApk has returned Success, the package metadata is populated and
\* dex_data is the address of a region that is mapped (owned, not null).
C9_SuccessHoldsRegion ==
    (g_exec_op = "loadApk" /\ g_exec_result = "Success")
      => /\ InfoPopulated
         /\ dex_data # nullptr
         /\ dex_data # MAP_FAILED
         /\ \E r \in g_mapped : r.id = dex_data

-----------------------------------------------------------------------------
(* Further properties of API::Impl                                          *)

\* What the handler registered for the request's method raises when invoked
\* now ("" if it raises nothing).
HandlerFault(request) == Invoke(ApiObj, handlers[request.method], request).thrown

\* C11: when the handler that an admitted request invokes raises a fault,
\* handleRequest returns normally (no exception leaves it), the callback has
\* received exactly one failure response carrying the fault's message, and
\* handlers_mutex is free again.
C11_HandlerFaultContained ==
    [][ \A request \in Requests :
          (/\ api_initialized
           /\ request.method \in DOMAIN handlers
           /\ HandlerFault(request) # ""
           /\ handleRequest(request)
           /\ g_invoked' # <<>>)
            => /\ g_api_thrown' = ""
               /\ g_responses' = <<Response(FALSE, "",
                                            "Handler error: " \o HandlerFault(request))>>
               /\ handlers_mutex' = "unlocked" ]_vars

\* C12: on an initialized gateway, a request made when the current window has
\* used up its capacity is answered "Rate limit exceeded" and invokes no handler,
\* whether or not its method is registered; a request for an unregistered
\* method made within the capacity is answered "Unknown method: {name}", invokes
\* no handler, and has been counted by the limiter.
C12_CheckOrder ==
    [][ \A request \in RateRequests :
          (api_initialized /\ g_api_op' = "handleRequest" /\ handleRequest(request))
            => LET over == ~WindowElapsed /\ g_win_calls >= MAX_API_CALLS_PER_SECOND
               IN  /\ over => /\ g_responses' = <<Response(FALSE, "", "Rate limit exceeded")>>
                              /\ g_invoked' = <<>>
                   /\ (~over /\ request.method \notin DOMAIN handlers)
                        => /\ g_responses' = <<Response(FALSE, "",
                                                 "Unknown method: " \o request.method)>>
                           /\ g_invoked' = <<>>
                           /\ api_calls_count' =
                                (IF WindowElapsed THEN 0 ELSE api_calls_count) + 1 ]_vars

\* A request for an unregistered method was turned away by the limiter.
C12_Witness ==
    /\ g_api_op = "handleRequest"
    /\ api_initialized
    /\ g_request.method = "nosuch"
    /\ g_responses = <<Response(FALSE, "", "Rate limit exceeded")>>
    /\ g_win_calls > MAX_API_CALLS_PER_SECOND

\* C13: an admitted request for a name the caller has registered handlers for
\* invokes the handler of the caller's last registerHandler for that name, and
\* no other.
C13_LastWriterWins ==
    [][ \A request \in Requests :
          (/\ api_initialized
           /\ request.method \in DOMAIN g_registered
           /\ handleRequest(request)
           /\ \A i \in DOMAIN g_responses' : g_responses'[i].error # "Rate limit exceeded")
            => g_invoked' = <<g_registered[request.method].handler>> ]_vars

\* The caller registered another handler for the built-in getApiLevel and then
\* g, and the request invoked g.
C13_Witness ==
    /\ g_api_op = "handleRequest"
    /\ g_request.method = "getApiLevel"
    /\ "getApiLevel" \in DOMAIN g_registered
    /\ g_registered["getApiLevel"] = [handler |-> "g", replaced |-> TRUE]
    /\ g_invoked = <<"g">>
    /\ g_responses = <<Response(TRUE, "g", "")>>

-----------------------------------------------------------------------------
(* Further properties of Runtime::Impl (SpecRuntime)                        *)

RuntimeEdges == {<<"NotInitialized", "Ready">>, <<"NotInitialized", "Error">>,
                 <<"Ready", "Running">>, <<"Ready", "Stopped">>,
                 <<"Running", "Stopped">>}

\* C14: RuntimeState changes only along NotInitialized->Ready,
\* NotInitialized->Error, Ready->Running, Ready->Stopped and Running->Stopped.
C14_RuntimeEdges ==
    [][ rt_state' # rt_state => <<rt_state, rt_state'>> \in RuntimeEdges ]_vars

\* C15: shutdown called in Ready or Running leaves both tables empty and the
\* state Stopped; called in any other state it reports nothing and leaves the
\* state and both tables as they were.
C15_Shutdown ==
    [][ g_rt_op' = "shutdown"
          => IF rt_state \in {"Ready", "Running"}
               THEN /\ loaded_classes' = <<>>
                    /\ native_methods' = {}
                    /\ rt_state' = "Stopped"
               ELSE /\ UNCHANGED <<rt_state, loaded_classes, native_methods>>
                    /\ g_rt_log' = <<>> ]_vars

\* A shutdown of a running runtime.
C15_Witness ==
    /\ g_rt_op = "shutdown"
    /\ rt_state = "Stopped"
    /\ loaded_classes = <<>>
    /\ native_methods = {}
    /\ g_rt_log = <<"Shutting down runtime">>

Range(f) == {f[i] : i \in DOMAIN f}

Min(a, b) == IF a < b THEN a ELSE b

\* The entries a boot with fault k adds before it stops: every core class before
\* the k-th, and every stub before the (k-4)-th.
ClassesBeforeFault(k) == SubSeq(core_classes, 1, Min(k - 1, Len(core_classes)))

StubsBeforeFault(k) == {native_funcs[i] : i \in 1 .. (k - 1 - Len(core_classes))}

C16_ReadyIsComplete ==
    rt_state = "Ready" => /\ Range(core_classes) \subseteq Range(loaded_classes)
                          /\ Range(native_funcs) \subseteq native_methods

C16_FailFast ==
    \A cfg \in RuntimeConfigs, k \in BootFaults \ {0} :
        (g_rt_op' = "initialize" /\ initialize(cfg, k))
          => /\ rt_state' = "Error"
             /\ g_rt_result' = FALSE
             /\ loaded_classes' = loaded_classes \o ClassesBeforeFault(k)
             /\ native_methods' = native_methods \cup StubsBeforeFault(k)

\* C16: whenever RuntimeState is Ready both tables hold all four core classes
\* and all four native stubs; a boot in which a class load or a stub
\* registration fails adds nothing after the failing entry and ends in Error.
C16_BootAllOrError == [](C16_ReadyIsComplete) /\ [][C16_FailFast]_vars

\* A first boot that failed at the third core class: two classes in, no stub.
C16_Witness ==
    /\ g_rt_op = "initialize"
    /\ rt_state = "Error"
    /\ loaded_classes = SubSeq(core_classes, 1, 2)
    /\ native_methods = {}

\* C17: a startActivity(name) that returns Success from Ready has appended name
\* to the class table, has constructed exactly one Activity and left it
\* Resumed, and has set RuntimeState to Running.
C17_StartActivityDrivesLifecycle ==
    [][ \A n \in ActivityNames, fault \in BOOLEAN :
          (/\ rt_state = "Ready"
           /\ g_rt_op' = "startActivity"
           /\ startActivity(n, fault)
           /\ g_rt_result' = "Success")
            => /\ loaded_classes' = Append(loaded_classes, n)
               /\ rt_state' = "Running"
               /\ Len(rt_activities') = Len(rt_activities) + 1
               /\ Last(rt_activities') = "Resumed" ]_vars

\* C19: once RuntimeState is Error it stays Error.
C19_RuntimeErrorSticky ==
    [][ rt_state = "Error" => rt_state' = "Error" ]_vars

-----------------------------------------------------------------------------
(* Further properties of Executor::Impl (SpecLoader)                        *)

\* C18: once the Loader's ExecutionState is Error it stays Error.
C18_LoaderErrorSticky ==
    [][ exec_state = "Error" => exec_state' = "Error" ]_vars

-----------------------------------------------------------------------------
(* Further properties of Activity::Impl (SpecActivity)                      *)

\* The guard of the lifecycle callback op turns the call away in state st.
GuardFails(op, st) ==
    CASE op = "onCreate" -> st # "Created"
      [] op = "onStart" -> st \notin {"Created", "Stopped"}
      [] op = "onResume" -> st \notin {"Started", "Paused"}
      [] op = "onPause" -> st # "Resumed"
      [] op = "onStop" -> st # "Paused"
      [] op = "onDestroy" -> st = "Destroyed"
      [] OTHER -> FALSE

\* C20: a lifecycle callback called in a state its guard turns away leaves the
\* lifecycle state, the lifecycle log, the service table, the finishing flag
\* and the focus flag as they were, and writes nothing to the state.
C20_GuardFailureIsNoOp ==
    [][ GuardFails(g_act_op', act_state)
          => /\ UNCHANGED <<act_state, lifecycle_log, system_services, is_finishing,
                            has_window_focus>>
             /\ g_act_trace' = <<act_state>> ]_vars

\* onStop was called on a resumed activity and did nothing.
C20_Witness ==
    /\ g_act_op = "onStop"
    /\ act_state = "Resumed"
    /\ g_act_trace = <<"Resumed">>
    /\ Last(lifecycle_log) = "onResume called"

-----------------------------------------------------------------------------
(* Properties of save, restore and focus (SpecSnapshot)                     *)

SnapshotOps == {"onSaveInstanceState", "onRestoreInstanceState", "onWindowFocusChanged"}

\* C21: a save leaves the focus flag and the finishing flag as they were, and a
\* restore that directly follows it and is given the snapshot the save filled
\* leaves them as they were too, in every lifecycle state.
C21_SaveRestoreRoundTrip ==
    [][ /\ g_act_op' = "onSaveInstanceState"
             => UNCHANGED <<has_window_focus, is_finishing>>
        /\ (/\ g_act_op = "onSaveInstanceState"
            /\ g_act_op' = "onRestoreInstanceState"
            /\ saved_state' = out_state)
             => UNCHANGED <<has_window_focus, is_finishing>> ]_vars

\* A finishing activity that has the focus was saved and at once restored.
C21_Witness ==
    /\ g_act_op = "onRestoreInstanceState"
    /\ Len(lifecycle_log) >= 2
    /\ lifecycle_log[Len(lifecycle_log) - 1] = "Saving instance state"
    /\ Last(lifecycle_log) = "Restoring instance state"
    /\ saved_state = out_state
    /\ has_window_focus
    /\ is_finishing

\* C22: save, restore and focus changes never write the lifecycle state, in any
\* state, and after onWindowFocusChanged(b) the focus flag is b (the log entry
\* tells which b the call was given).
C22_SnapshotKeepsState ==
    [][ /\ g_act_op' \in SnapshotOps
             => (act_state' = act_state /\ g_act_trace' = <<act_state>>)
        /\ g_act_op' = "onWindowFocusChanged"
             => has_window_focus' =
                  (Last(lifecycle_log') = "Window focus changed: gained focus") ]_vars

\* A destroyed activity was given the focus.
C22_Witness ==
    /\ g_act_op = "onWindowFocusChanged"
    /\ act_state = "Destroyed"
    /\ has_window_focus
    /\ Last(lifecycle_log) = "Window focus changed: gained focus"

-----------------------------------------------------------------------------
(* Further properties of the lifecycle (SpecActivity, SpecFaults)           *)

\* The states finish() takes the activity through from st, st included.
FinishPath(st) ==
    CASE st = "Resumed" -> <<"Resumed", "Paused", "Stopped", "Destroyed">>
      [] st = "Paused" -> <<"Paused", "Stopped", "Destroyed">>
      [] st = "Destroyed" -> <<"Destroyed">>
      [] OTHER -> <<st, "Destroyed">>

\* The log entry of the transition into st.
EntryOf(st) ==
    CASE st = "Paused" -> <<"onPause called">>
      [] st = "Stopped" -> <<"onStop called">>
      [] st = "Destroyed" -> <<"onDestroy called", "System services cleaned up">>

RECURSIVE EntriesOf(_)
EntriesOf(path) ==
    IF Len(path) <= 1 THEN <<>>
    ELSE EntryOf(path[2]) \o EntriesOf(Tail(path))

\* C23: a finish() on an activity that is not yet finishing sets the finishing
\* flag, logs it, and then runs pause, stop, destroy in that order, each under its
\* own guard: from Resumed the state goes through Paused and Stopped to
\* Destroyed, from Paused through Stopped, from Created, Started or Stopped
\* straight to Destroyed.
C23_FinishOrder ==
    [][ (g_act_op' = "finish" /\ ~is_finishing)
          => /\ is_finishing'
             /\ g_act_trace' = FinishPath(act_state)
             /\ lifecycle_log' = lifecycle_log \o <<"Activity finishing">>
                                   \o EntriesOf(FinishPath(act_state)) ]_vars

\* finish() on a created activity: pause and stop did nothing, destroy ran.
C23_Witness ==
    /\ g_act_op = "finish"
    /\ is_finishing
    /\ g_act_trace = <<"Created", "Destroyed">>
    /\ lifecycle_log = <<"Constructed", "Activity finishing", "onDestroy called",
                         "System services cleaned up">>

LifecycleOps == {"onCreate", "onStart", "onResume", "onPause", "onStop", "onDestroy"}

\* C24: when an allocation fails inside a lifecycle callback, the callback
\* appends the entry "<callback> failed: <what>", the exception reaches the
\* caller, and the lifecycle state is what it was before the call.
C24_FaultLoggedAndRethrown ==
    [][ (g_act_op' \in LifecycleOps /\ act_fault > 0 /\ act_fault' = 0)
          => /\ g_act_thrown' = "std::bad_alloc"
             /\ Len(lifecycle_log') > Len(lifecycle_log)
             /\ Last(lifecycle_log') = g_act_op' \o " failed: std::bad_alloc"
             /\ act_state' = act_state
             /\ g_act_trace' = <<act_state>> ]_vars

\* onDestroy failed while logging the cleanup: the table is empty already, the
\* activity still Stopped.
C24_Witness ==
    /\ g_act_op = "onDestroy"
    /\ g_act_thrown = "std::bad_alloc"
    /\ act_state = "Stopped"
    /\ system_services = {}
    /\ Len(lifecycle_log) >= 2
    /\ lifecycle_log[Len(lifecycle_log) - 1] = "onDestroy called"
    /\ Last(lifecycle_log) = "onDestroy failed: std::bad_alloc"

-----------------------------------------------------------------------------
(* Further properties of Executor::Impl (SpecLoader, SpecRace)              *)

\* C25: a pause() call moves a Running Loader to Paused and a resume() call a
\* Paused Loader to Running; in every other state the call writes nothing to
\* ExecutionState and emits no event.
C25_PauseResumeGuards ==
    [][ /\ (g_exec_op' = "pause" /\ pause)
             => IF exec_state = "Running"
                  THEN exec_state' = "Paused" /\ g_exec_trace' = <<"Paused">>
                  ELSE /\ exec_state' = exec_state
                       /\ g_exec_trace' = <<>>
                       /\ g_exec_events' = <<>>
        /\ (g_exec_op' = "resume" /\ resume)
             => IF exec_state = "Paused"
                  THEN exec_state' = "Running" /\ g_exec_trace' = <<"Running">>
                  ELSE /\ exec_state' = exec_state
                       /\ g_exec_trace' = <<>>
                       /\ g_exec_events' = <<>> ]_vars

\* pause() was called on a Loader in Error, with an event callback set.
C25_Witness ==
    /\ g_exec_op = "pause"
    /\ exec_state = "Error"
    /\ exec_callback
    /\ g_exec_trace = <<>>
    /\ g_exec_events = <<>>

\* The run loop is active and a stop() has cleared the flag.
StopRequested == exec_pc = "loop" /\ ~is_running

ExecuteReturned == exec_pc = "idle" /\ g_owner_last = <<"execute", "Success">>

\* C26: once stop() has cleared the flag while the run loop is active,
\* execute() leaves the loop, writes Stopped and returns Success, whether the
\* Loader is Running or Paused; a further stop() changes nothing.
C26_StopEndsExecute ==
    /\ StopRequested ~> ExecuteReturned
    /\ [][ (exec_pc = "exit" /\ exec_pc' = "idle")
             => (Last(g_exec_trace') = "Stopped" /\ g_exec_result' = "Success") ]_vars
    /\ [][ (g_exec_op' = "stop" /\ ~is_running /\ stop)
             => UNCHANGED <<exec_state, is_running, exec_pc>> ]_vars

\* The loop was left while the Loader was Paused.
C26_Witness == exec_pc = "exit" /\ exec_state = "Paused" /\ ~is_running

\* C27: the package metadata changes only in a loadApk that returns Success, and
\* only if no load has written it before.
C27_MetadataWrittenOnce ==
    [][ apk_info' # apk_info
          => /\ g_exec_op' = "loadApk"
             /\ g_exec_result' = "Success"
             /\ apk_info = EmptyApkInfo ]_vars

\* C29: from the return of an execute() that returned Success until the next
\* loadApk or execute call, ExecutionState is Stopped.
C29_StoppedAfterExecute ==
    g_owner_last = <<"execute", "Success">> => exec_state = "Stopped"

-----------------------------------------------------------------------------
(* Further properties of the rate limiter (SpecThreads, SpecRate)           *)

\* The threads between the test of checkRateLimit and its increment.
Counting == {t \in Threads : thr_pc[t] = "count"}

\* C28: with threads calling handleRequest at once, at most 1000 calls pass the
\* rate check in one window, and the counter equals the number of calls admitted
\* in the window, a call that has passed the test and not yet been counted being
\* the only difference.
C28_ConcurrentCount ==
    /\ g_admitted <= MAX_API_CALLS_PER_SECOND
    /\ api_calls_count + Cardinality(Counting) = g_admitted
    /\ Cardinality(Counting) <= 1

\* The window is full with one call still being served, and the other thread's
\* call has been refused.
C28_Witness ==
    /\ api_calls_count = MAX_API_CALLS_PER_SECOND
    /\ thr_pc["t1"] = "dispatch"
    /\ thr_pc["t2"] = "idle"
    /\ RateLimited

\* The window has lasted a second or more when the call is made.
SecondElapsed == clock - last_rate_reset >= TicksPerSecond

C30_Range == api_calls_count \in 0..MAX_API_CALLS_PER_SECOND

C30_Step ==
    /\ api_calls_count' # api_calls_count => g_api_op' = "handleRequest"
    /\ \A request \in RateRequests :
         (api_initialized /\ g_api_op' = "handleRequest" /\ handleRequest(request))
           => /\ RatePassed'
                => api_calls_count' = (IF SecondElapsed THEN 0 ELSE api_calls_count) + 1
              /\ RateLimited'
                => api_calls_count' = api_calls_count /\ ~SecondElapsed
              /\ last_rate_reset' = IF SecondElapsed THEN clock ELSE last_rate_reset

\* C30: the counter stays within 0..1000; an admitted call adds one to it, a
\* refused call leaves it as it was, and it restarts from zero only in a call
\* made a second or more after the window's start, which becomes the call's time.
C30_CounterRange == [](C30_Range) /\ [][C30_Step]_vars

\* A call was refused in a window that is not the first.
C30_Witness ==
    /\ g_api_op = "handleRequest"
    /\ RateLimited
    /\ api_calls_count = MAX_API_CALLS_PER_SECOND
    /\ last_rate_reset > 0

-----------------------------------------------------------------------------
(* Further properties of Runtime::Impl (SpecRuntime)                        *)

\* C31: the class table holds each class name at most once, so the count that
\* getStats reports equals the number of distinct loaded names.
C31_ClassNamesUnique ==
    getStats.loaded_classes_count = Cardinality(Range(loaded_classes))

\* The class table before the step is the beginning of the table after it.
ClassesKept ==
    /\ Len(loaded_classes') >= Len(loaded_classes)
    /\ SubSeq(loaded_classes', 1, Len(loaded_classes)) = loaded_classes

\* C32: a step that is not a shutdown keeps every entry of the class table and
\* of the native-method table; a step that removes an entry is a shutdown and
\* leaves both tables empty.
C32_TablesGrowUntilShutdown ==
    [][ (ClassesKept /\ native_methods \subseteq native_methods')
          \/ (/\ g_rt_op' = "shutdown"
              /\ rt_state \in {"Ready", "Running"}
              /\ loaded_classes' = <<>>
              /\ native_methods' = {}) ]_vars

\* A shutdown has emptied both tables of a runtime booted in debug mode.
C32_Witness ==
    /\ g_rt_op = "shutdown"
    /\ g_rt_log = <<"Shutting down runtime">>
    /\ loaded_classes = <<>>
    /\ native_methods = {}
    /\ rt_state = "Stopped"
    /\ rt_config.debug_mode

-----------------------------------------------------------------------------
(* Further properties of Activity::Impl (SpecFaults)                        *)

\* What the step appended to the lifecycle log.
Appended == SubSeq(lifecycle_log', Len(lifecycle_log) + 1, Len(lifecycle_log'))

\* The entry a callback logs before it writes the state st.
CalledEntry(st) ==
    CASE st = "Created" -> "onCreate called"
      [] st = "Started" -> "onStart called"
      [] st = "Resumed" -> "onResume called"
      [] st = "Paused" -> "onPause called"
      [] st = "Stopped" -> "onStop called"
      [] st = "Destroyed" -> "onDestroy called"

\* The positions of the entries of the written states, in the order written.
RECURSIVE EntriesInOrder(_, _, _)
EntriesInOrder(written, entries, from) ==
    IF written = <<>> THEN TRUE
    ELSE \E i \in from .. Len(entries) :
            /\ entries[i] = CalledEntry(Head(written))
            /\ EntriesInOrder(Tail(written), entries, i + 1)

\* C33: no step removes or rewrites an entry of the lifecycle log, and every
\* state a step writes has its entry among those the step appended, in the order
\* of the writes; a call whose entry could not be appended writes no state.
C33_LogAppendOnly ==
    [][ /\ Len(lifecycle_log') >= Len(lifecycle_log)
        /\ SubSeq(lifecycle_log', 1, Len(lifecycle_log)) = lifecycle_log
        /\ (g_act_op' \in LifecycleOps \cup {"finish"} /\ act_fault' <= act_fault)
             => EntriesInOrder(Tail(g_act_trace'), Appended, 1) ]_vars

\* A finish was cut short: pause and stop are logged and written, the entry of
\* destroy could not be appended and the state is still Stopped.
C33_Witness ==
    /\ g_act_op = "finish"
    /\ g_act_thrown = "std::bad_alloc"
    /\ g_act_trace = <<"Resumed", "Paused", "Stopped">>
    /\ act_state = "Stopped"
    /\ Last(lifecycle_log) = "onDestroy failed: std::bad_alloc"

-----------------------------------------------------------------------------
(* Further properties of API::Impl (SpecGateway)                            *)

\* A numeric parameter: an optional sign and then decimal digits, nothing else.
Digits(str) == Len(str) > 0 /\ \A i \in DOMAIN str : str[i] \in DigitChars

Numeric(str) ==
    IF Len(str) > 0 /\ Head(str) \in {"+", "-"} THEN Digits(Tail(str)) ELSE Digits(str)

RECURSIVE DecimalValue(_)
DecimalValue(str) ==
    IF str = <<>> THEN 0
    ELSE 10 * DecimalValue(SubSeq(str, 1, Len(str) - 1)) + DigitVal(str[Len(str)])

\* The pointer token a numeric parameter denotes.
PointerOf(str) ==
    IF Head(str) = "-"
      THEN [wrapped |-> DecimalValue(Tail(str)) # 0, mag |-> DecimalValue(Tail(str))]
    ELSE IF Head(str) = "+" THEN [wrapped |-> FALSE, mag |-> DecimalValue(Tail(str))]
    ELSE [wrapped |-> FALSE, mag |-> DecimalValue(str)]

C34_Step ==
    /\ native_functions' # native_functions
         => (g_api_op' = "handleRequest" /\ g_invoked' = <<"handleRegisterNativeMethod">>)
    /\ (g_api_op' = "handleRequest" /\ g_invoked' = <<"handleRegisterNativeMethod">>)
         => LET params == g_request'.params
            IN  IF /\ "name" \in DOMAIN params
                   /\ "pointer" \in DOMAIN params
                   /\ Numeric(params["pointer"])
                  THEN native_functions' = MapPut(native_functions, params["name"],
                                                  PointerOf(params["pointer"]))
                  ELSE native_functions' = native_functions

\* C34: a registerNativeMethod request with a name and a numeric pointer binds
\* the name to that pointer, which getNativeFunction returns until the name is
\* registered again; a name never registered yields null; a request with a
\* missing or non-numeric parameter binds nothing.
C34_NativeBinding ==
    /\ [](getNativeFunction("never.registered") = [wrapped |-> FALSE, mag |-> nullptr])
    /\ [][C34_Step]_vars

-----------------------------------------------------------------------------
(* Re-entrant handlers and completion callbacks (SpecReentry)               *)

\* Thread t waits for handlers_mutex while it holds it.
Blocked(t) == thr_pc[t] \in {"nested_register", "nested_lock"} /\ handlers_mutex = t

\* The step is one of thread t's own handleRequest call (not of a call nested
\* in it) and the completion callback of that call is invoked in it.
Delivers(t) ==
    /\ g_api_op' = "handleRequest"
    /\ thr_pc[t] \in {"idle", "test", "invoke"}
    /\ thr_pc'[t] # thr_pc[t] \/ thr_pc[t] = "idle"
    /\ \A u \in Threads \ {t} : thr_pc'[u] = thr_pc[u]
    /\ g_responses' # <<>>

C35_Step(t) ==
    /\ Blocked(t) => (Blocked(t)' /\ thr_pc'[t] = thr_pc[t])
    /\ (thr_pc[t] = "invoke" /\ thr_pc'[t] # "invoke")
         => (handlers_mutex = t /\ handlers_mutex' = t)
    /\ (handlers_mutex = t /\ thr_pc[t] = "nested_request" /\ thr_pc'[t] # "nested_request")
         => (g_responses' = <<RateExceeded>> \/ Blocked(t)')
    /\ (handlers_mutex = t /\ thr_pc'[t] = "nested_register") => Blocked(t)'
    /\ Delivers(t)
         => (g_responses'[1] \in {NotInitialized, RateExceeded} <=> handlers_mutex' # t)

\* C35: handleRequest holds handlers_mutex while it invokes the handler and
\* while any response is delivered after the lock was taken, so a handler or
\* completion callback that, with the mutex held, calls registerHandler, or
\* calls handleRequest with a request that passes the initialized and rate
\* checks, waits for the mutex forever; only the responses "API not
\* initialized" and "Rate limit exceeded" are delivered without the mutex held.
C35_SelfDeadlock == [][\A t \in Threads : C35_Step(t)]_vars

\* The completion callback of t1, invoked by the built-in handler, called
\* handleRequest: t1 waits for the mutex it holds, and t2 waits for it too.
C35_Witness ==
    /\ Blocked("t1")
    /\ thr_pc["t1"] = "nested_lock"
    /\ thr_req["t1"] = [method |-> "getApiLevel", callback |-> "calls_handleRequest"]
    /\ thr_pc["t2"] = "dispatch"

-----------------------------------------------------------------------------
(* The stop flag at the entry of execute() (SpecRace)                       *)

\* C36: execute() writes true to the flag on entry whatever a stop() wrote
\* before, so a stop() made before that write is lost: the flag is cleared again
\* only by a stop() made after it, and the loop is left only with the flag
\* cleared.
C36_EarlyStopLost ==
    [][ /\ (exec_pc = "set_running" /\ exec_pc' # "set_running")
             => (is_running' /\ exec_pc' = "loop")
        /\ (is_running /\ ~is_running') => (g_exec_op' = "stop" /\ stop)
        /\ (exec_pc = "loop" /\ exec_pc' # "loop")
             => (~is_running /\ exec_pc' = "exit") ]_vars

\* A stop() was made between the entry of execute() and its write to the flag:
\* the loop runs with the flag set.
C36_Witness ==
    /\ exec_pc = "loop"
    /\ is_running
    /\ g_exec_op = "stop"
    /\ g_owner_last = <<"execute", "">>

-----------------------------------------------------------------------------
(* Completion callbacks (SpecCallback)                                      *)

BuiltInHandlers == {"handleGetApiLevel", "handleCheckPermission",
                    "handleRegisterNativeMethod"}

\* C37: a handleRequest call that is refused (not initialized, rate limit,
\* unknown method) or dispatched to a built-in handler, whatever its parameter
\* map, invokes the completion callback exactly once.
C37_CallbackOnce ==
    [][ (g_api_op' = "handleRequest" /\ Range(g_invoked') \subseteq BuiltInHandlers)
          => Len(g_responses') = 1 ]_vars

-----------------------------------------------------------------------------
(* Teardown of Executor::Impl (SpecLoader)                                  *)

\* C38: the Loader holds a region only if a load acquired it, and every munmap
\* of the teardown names a region that a load acquired.
C38_TeardownReleasesAcquired ==
    /\ dex_data # nullptr => dex_data \in Acquired
    /\ \A i \in DOMAIN g_munmaps : g_munmaps[i][1] \in Acquired

-----------------------------------------------------------------------------
(* Delivery of draw commands (SpecRender)                                   *)

\* The n-th command was pushed while the surface was created and the GL
\* context initialized.
SubmittedReady(n) == Len(g_submitted) >= n /\ g_submitted[n].ready

\* The n-th command pushed has been taken from the queue and drawn (the queue
\* is drained whole and in order).
Executed(n) == Len(g_executed) >= n

\* C39: every command pushed while the surface is created and the GL context
\* initialized is eventually drawn by the render thread, with no further
\* submitCommand call, unless the Renderer is being destroyed.
C39_CommandsEventuallyExecuted ==
    \A n \in 1 .. MaxCommands :
        SubmittedReady(n) ~> (Executed(n) \/ ~render_running)

=============================================================================
